---- MODULE Spec2Model ----
(***************************************************************************)
(* Model of the feynsum-rust simulator core: gate algebra (push / pull),   *)
(* gate decomposition, the greedy non-branching gate scheduler and the     *)
(* state expander (dispatch, sparse push with overflow recovery, dense     *)
(* push, dense pull).                                                      *)
(*                                                                         *)
(* Amplitudes are exact: a Complex is an element of Z[w, 1/2] with         *)
(* w = e^{i pi/4}, written <<a, b, c, d, e>> for                           *)
(* (a + b w + c w^2 + d w^3) / 2^e in lowest terms.  Angles are integers   *)
(* counting units of pi/4, so every cos / sin the code computes is in the  *)
(* ring (0, +-1, +-1/sqrt 2) and utility::is_zero is exact equality to 0.  *)
(*                                                                         *)
(* A value the code binds once with let and reads several times is passed  *)
(* as an argument to a helper operator (named ..._of / ..._with) instead   *)
(* of being bound by LET, so that it is written once in the model too.     *)
(***************************************************************************)
EXTENDS Integers, Sequences, FiniteSets, TLC

----------------------------------------------------------------------------
(* Bounds of the state spaces explored.                                    *)

\* number of gates of the circuits given to the scheduler
MaxGates == 3
\* number of qubits of the circuits given to the scheduler
SchedQubits == 3
\* number of qubits of the states given to the dense expansions
DenseQubits == 3
\* number of qubits of the small states given to expand
ExpandQubits == 2
\* number of qubits of the states that expand_sparse splits into blocks
BlockQubits == 7
\* capacity from which the sparse table is not grown any further
MaxCapacity == 40
\* the qubits of the mps_simulator's dense table, and the puts made into it
TableQubits == 2
MaxPuts == 3
\* number of qubits of the basis indices given to the generic 2x2 routines
UnitaryQubits == 2

\* Option<T>: None, or Some(x)
None == <<>>
Some(x) == <<x>>

----------------------------------------------------------------------------
(* types::Complex -- exact arithmetic                                      *)

Zero == <<0, 0, 0, 0, 0>>
One == <<1, 0, 0, 0, 0>>
ImagI == <<0, 0, 1, 0, 0>>
RECP_SQRT_2 == <<0, 1, 0, -1, 1>>

Pow2(n) == 2 ^ n

RECURSIVE CNorm(_)
CNorm(z) ==
    IF z[1] = 0 /\ z[2] = 0 /\ z[3] = 0 /\ z[4] = 0 THEN Zero
    ELSE IF z[5] > 0 /\ z[1] % 2 = 0 /\ z[2] % 2 = 0 /\ z[3] % 2 = 0 /\ z[4] % 2 = 0
         THEN CNorm(<<z[1] \div 2, z[2] \div 2, z[3] \div 2, z[4] \div 2, z[5] - 1>>)
         ELSE z

CAdd(x, y) ==
    LET e == IF x[5] > y[5] THEN x[5] ELSE y[5]
        sx == Pow2(e - x[5])
        sy == Pow2(e - y[5])
    IN  CNorm(<<sx * x[1] + sy * y[1], sx * x[2] + sy * y[2],
                sx * x[3] + sy * y[3], sx * x[4] + sy * y[4], e>>)

CMul(x, y) ==
    CNorm(<<x[1] * y[1] - x[2] * y[4] - x[3] * y[3] - x[4] * y[2],
            x[1] * y[2] + x[2] * y[1] - x[3] * y[4] - x[4] * y[3],
            x[1] * y[3] + x[2] * y[2] + x[3] * y[1] - x[4] * y[4],
            x[1] * y[4] + x[2] * y[3] + x[3] * y[2] + x[4] * y[1],
            x[5] + y[5]>>)

CNeg(x) == <<-x[1], -x[2], -x[3], -x[4], x[5]>>

\* Complex::new(re, im) for real coefficients re, im of the ring
ComplexNew(re, im) == CAdd(re, CMul(ImagI, im))

is_zero(c) == c = Zero
is_nonzero(c) == c # Zero

\* f64::cos / f64::sin of k * pi/4
Cos(k) ==
    LET m == k % 8
    IN  IF m = 0 THEN One
        ELSE IF m = 1 \/ m = 7 THEN RECP_SQRT_2
        ELSE IF m = 2 \/ m = 6 THEN Zero
        ELSE IF m = 4 THEN CNeg(One)
        ELSE CNeg(RECP_SQRT_2)

\* sin with the sign of cos: sin(k pi/4) taken as sin(-k pi/4)
Sin_odd_sign(k) ==
    LET m == k % 8
    IN  IF m = 0 \/ m = 4 THEN Zero
        ELSE IF m = 1 \/ m = 3 THEN CNeg(RECP_SQRT_2)
        ELSE IF m = 2 THEN CNeg(One)
        ELSE IF m = 6 THEN One
        ELSE RECP_SQRT_2

Sin(k) ==
    LET m == k % 8
    IN  IF m = 0 \/ m = 4 THEN Zero
        ELSE IF m = 1 \/ m = 3 THEN RECP_SQRT_2
        ELSE IF m = 2 THEN One
        ELSE IF m = 6 THEN CNeg(One)
        ELSE CNeg(RECP_SQRT_2)

----------------------------------------------------------------------------
(* types::BasisIdx -- a basis index is the integer as_idx() packs          *)

zeros == 0
get(bidx, qi) == (bidx \div Pow2(qi)) % 2 = 1
set(bidx, qi) == IF get(bidx, qi) THEN bidx ELSE bidx + Pow2(qi)
unset(bidx, qi) == IF get(bidx, qi) THEN bidx - Pow2(qi) ELSE bidx
flip(bidx, qi) == IF get(bidx, qi) THEN bidx - Pow2(qi) ELSE bidx + Pow2(qi)
swap(bidx, qi, qj) ==
    LET bi == get(bidx, qi)
        bj == get(bidx, qj)
        r1 == IF bj THEN set(bidx, qi) ELSE unset(bidx, qi)
    IN  IF bi THEN set(r1, qj) ELSE unset(r1, qj)

----------------------------------------------------------------------------
(* circuit::GateDefn.  Every gate is a record of the same shape; q1..q3    *)
(* are its qubit fields and r1..r3 its angles, in declaration order.       *)

GateRec(kind, q1, q2, q3, r1, r2, r3) ==
    [kind |-> kind, q1 |-> q1, q2 |-> q2, q3 |-> q3, r1 |-> r1, r2 |-> r2, r3 |-> r3]

CCX(control1, control2, target) == GateRec("CCX", control1, control2, target, 0, 0, 0)
CPhase(control, target, rot) == GateRec("CPhase", control, target, 0, rot, 0, 0)
CSwap(control, target1, target2) == GateRec("CSwap", control, target1, target2, 0, 0, 0)
CX(control, target) == GateRec("CX", control, target, 0, 0, 0, 0)
CZ(control, target) == GateRec("CZ", control, target, 0, 0, 0, 0)
FSim(left, right, theta, phi) == GateRec("FSim", left, right, 0, theta, phi, 0)
Hadamard(qi) == GateRec("Hadamard", qi, 0, 0, 0, 0, 0)
PauliY(qi) == GateRec("PauliY", qi, 0, 0, 0, 0, 0)
PauliZ(qi) == GateRec("PauliZ", qi, 0, 0, 0, 0, 0)
Phase(rot, target) == GateRec("Phase", target, 0, 0, rot, 0, 0)
RX(rot, target) == GateRec("RX", target, 0, 0, rot, 0, 0)
RY(rot, target) == GateRec("RY", target, 0, 0, rot, 0, 0)
RZ(rot, target) == GateRec("RZ", target, 0, 0, rot, 0, 0)
S(qi) == GateRec("S", qi, 0, 0, 0, 0, 0)
Sdg(qi) == GateRec("Sdg", qi, 0, 0, 0, 0, 0)
SqrtX(qi) == GateRec("SqrtX", qi, 0, 0, 0, 0, 0)
SqrtXdg(qi) == GateRec("SqrtXdg", qi, 0, 0, 0, 0, 0)
Swap(target1, target2) == GateRec("Swap", target1, target2, 0, 0, 0, 0)
T(qi) == GateRec("T", qi, 0, 0, 0, 0, 0)
Tdg(qi) == GateRec("Tdg", qi, 0, 0, 0, 0, 0)
U(target, theta, phi, lambda) == GateRec("U", target, 0, 0, theta, phi, lambda)
X(qi) == GateRec("X", qi, 0, 0, 0, 0, 0)
Other == GateRec("Other", 0, 0, 0, 0, 0, 0)

create_touches(defn) ==
    IF defn.kind \in {"Hadamard", "PauliY", "PauliZ", "Phase", "S", "Sdg", "SqrtX",
                      "SqrtXdg", "T", "Tdg", "X", "RX", "RY", "RZ", "U"}
    THEN <<defn.q1>>
    ELSE IF defn.kind \in {"CPhase", "CZ", "CX", "FSim", "Swap"}
    THEN <<defn.q1, defn.q2>>
    ELSE IF defn.kind \in {"CCX", "CSwap"}
    THEN <<defn.q1, defn.q2, defn.q3>>
    ELSE <<>>

----------------------------------------------------------------------------
(* Push semantics.  A PushApplyOutput / PullApplyOutput is a sequence of   *)
(* one (Nonbranching) or two (Branching) pairs <<bidx, weight>>.           *)

Nonbranching(bidx, weight) == << <<bidx, weight>> >>
Branching(p1, p2) == <<p1, p2>>

\* the two assert!s single_qubit_unitary_push starts with: TRUE when both pass
single_qubit_unitary_push_asserts(a, b, c, d) ==
    /\ ~(is_zero(a) /\ is_zero(b))
    /\ ~(is_zero(c) /\ is_zero(d))

\* what follows the assert!s
single_qubit_unitary_push(bidx, weight, target, a, b, c, d) ==
    IF is_zero(a) /\ is_zero(d)
    THEN Nonbranching(flip(bidx, target),
                      IF get(bidx, target) THEN CMul(b, weight) ELSE CMul(c, weight))
    ELSE IF is_zero(c) /\ is_zero(b)
    THEN Nonbranching(bidx, IF get(bidx, target) THEN CMul(d, weight) ELSE CMul(a, weight))
    ELSE LET mult0 == IF get(bidx, target) THEN b ELSE a
             mult1 == IF get(bidx, target) THEN d ELSE c
         IN  Branching(<<unset(bidx, target), CMul(mult0, weight)>>,
                       <<set(bidx, target), CMul(mult1, weight)>>)

\* single_qubit_unitary_push on the matrix m = <<a, b, c, d>>
unitary_push_with(bidx, weight, target, m) ==
    single_qubit_unitary_push(bidx, weight, target, m[1], m[2], m[3], m[4])

\* the 2x2 matrix <<a, b, c, d>> the code builds for RX{rot, target}
RXMatrix(rot) ==
    LET cos == ComplexNew(Cos(rot \div 2), Zero)
        sin == ComplexNew(Sin(rot \div 2), Zero)
        b == CMul(sin, ComplexNew(Zero, CNeg(One)))
    IN  <<cos, b, b, cos>>

\* the 2x2 matrix <<a, b, c, d>> the code builds for U{target, theta, phi, lambda}
UMatrix(theta, phi, lambda) ==
    LET cos == ComplexNew(Cos(theta \div 2), Zero)
        sin == ComplexNew(Sin(theta \div 2), Zero)
    IN  <<cos,
          CMul(CNeg(sin), ComplexNew(Cos(lambda), Sin(lambda))),
          CMul(sin, ComplexNew(Cos(phi), Sin(phi))),
          CMul(cos, ComplexNew(Cos(phi + lambda), Sin(phi + lambda)))>>

\* push_apply's arm for Other: unimplemented!(), the call does not return
push_apply_unimplemented(defn) == defn.kind = "Other"

\* the assert!s reached by push_apply(defn, ..): those of
\* single_qubit_unitary_push, in the arms of RX and U
push_apply_asserts(defn) ==
    IF defn.kind = "RX"
    THEN single_qubit_unitary_push_asserts(RXMatrix(defn.r1)[1], RXMatrix(defn.r1)[2],
                                           RXMatrix(defn.r1)[3], RXMatrix(defn.r1)[4])
    ELSE IF defn.kind = "U"
    THEN single_qubit_unitary_push_asserts(UMatrix(defn.r1, defn.r2, defn.r3)[1],
                                           UMatrix(defn.r1, defn.r2, defn.r3)[2],
                                           UMatrix(defn.r1, defn.r2, defn.r3)[3],
                                           UMatrix(defn.r1, defn.r2, defn.r3)[4])
    ELSE TRUE

\* push_apply whose CCX arm tests the first control only
push_apply_ccx_one_control(defn, bidx, weight) ==
    CASE defn.kind = "CCX" ->
           Nonbranching(IF get(bidx, defn.q1)
                        THEN flip(bidx, defn.q3) ELSE bidx, weight)
      [] defn.kind = "CPhase" ->
           Nonbranching(bidx, IF get(bidx, defn.q1) /\ get(bidx, defn.q2)
                              THEN CMul(weight, ComplexNew(Cos(defn.r1), Sin(defn.r1)))
                              ELSE weight)
      [] defn.kind = "CSwap" ->
           Nonbranching(IF get(bidx, defn.q1)
                        THEN swap(bidx, defn.q2, defn.q3) ELSE bidx, weight)
      [] defn.kind = "CX" ->
           Nonbranching(IF get(bidx, defn.q1) THEN flip(bidx, defn.q2) ELSE bidx, weight)
      [] defn.kind = "CZ" ->
           Nonbranching(bidx, IF get(bidx, defn.q1) /\ get(bidx, defn.q2)
                              THEN CNeg(weight) ELSE weight)
      [] defn.kind = "FSim" ->
           IF ~get(bidx, defn.q1) /\ ~get(bidx, defn.q2)
           THEN Nonbranching(bidx, weight)
           ELSE IF get(bidx, defn.q1) /\ get(bidx, defn.q2)
           THEN Nonbranching(bidx, CMul(weight, ComplexNew(Cos(defn.r2), Sin(defn.r2))))
           ELSE LET bidx0 == set(unset(bidx, defn.q1), defn.q2)
                    bidx1 == set(unset(bidx, defn.q2), defn.q1)
                    weight_a == CMul(weight, ComplexNew(Cos(defn.r1), Zero))
                    weight_b == CMul(weight, ComplexNew(Zero, CNeg(Sin(defn.r1))))
                IN  IF get(bidx, defn.q1)
                    THEN Branching(<<bidx0, weight_b>>, <<bidx1, weight_a>>)
                    ELSE Branching(<<bidx0, weight_a>>, <<bidx1, weight_b>>)
      [] defn.kind = "Hadamard" ->
           LET new_weight == CMul(weight, RECP_SQRT_2)
           IN  IF get(bidx, defn.q1)
               THEN Branching(<<unset(bidx, defn.q1), new_weight>>,
                              <<set(bidx, defn.q1), CNeg(new_weight)>>)
               ELSE Branching(<<unset(bidx, defn.q1), new_weight>>,
                              <<set(bidx, defn.q1), new_weight>>)
      [] defn.kind = "Phase" ->
           Nonbranching(bidx, IF get(bidx, defn.q1)
                              THEN CMul(weight, ComplexNew(Cos(defn.r1), Sin(defn.r1)))
                              ELSE weight)
      [] defn.kind = "RX" ->
           unitary_push_with(bidx, weight, defn.q1, RXMatrix(defn.r1))
      [] defn.kind = "RY" ->
           IF get(bidx, defn.q1)
           THEN Branching(<<unset(bidx, defn.q1), CMul(weight, CNeg(Sin(defn.r1 \div 2)))>>,
                          <<set(bidx, defn.q1), CMul(weight, Cos(defn.r1 \div 2))>>)
           ELSE Branching(<<unset(bidx, defn.q1), CMul(weight, Cos(defn.r1 \div 2))>>,
                          <<set(bidx, defn.q1), CMul(weight, Sin(defn.r1 \div 2))>>)
      [] defn.kind = "RZ" ->
           Nonbranching(bidx,
               IF get(bidx, defn.q1)
               THEN CMul(weight, ComplexNew(Cos(defn.r1 \div 2), Sin(defn.r1 \div 2)))
               ELSE CMul(weight, ComplexNew(Cos(defn.r1 \div 2), CNeg(Sin(defn.r1 \div 2)))))
      [] defn.kind = "S" ->
           Nonbranching(bidx, IF get(bidx, defn.q1)
                              THEN CMul(weight, ComplexNew(Zero, One)) ELSE weight)
      [] defn.kind = "Sdg" ->
           Nonbranching(bidx, IF get(bidx, defn.q1)
                              THEN CMul(weight, ComplexNew(Zero, CNeg(One))) ELSE weight)
      [] defn.kind = "Swap" ->
           Nonbranching(swap(bidx, defn.q1, defn.q2), weight)
      [] defn.kind = "SqrtX" ->
           LET weight_a == CMul(weight, <<1, 0, 1, 0, 1>>)
               weight_b == CMul(weight, <<1, 0, -1, 0, 1>>)
           IN  IF get(bidx, defn.q1)
               THEN Branching(<<unset(bidx, defn.q1), weight_b>>, <<set(bidx, defn.q1), weight_a>>)
               ELSE Branching(<<unset(bidx, defn.q1), weight_a>>, <<set(bidx, defn.q1), weight_b>>)
      [] defn.kind = "SqrtXdg" ->
           LET weight_a == CMul(weight, <<1, 0, 1, 0, 1>>)
               weight_b == CMul(weight, <<1, 0, -1, 0, 1>>)
           IN  IF get(bidx, defn.q1)
               THEN Branching(<<unset(bidx, defn.q1), weight_a>>, <<set(bidx, defn.q1), weight_b>>)
               ELSE Branching(<<unset(bidx, defn.q1), weight_b>>, <<set(bidx, defn.q1), weight_a>>)
      [] defn.kind = "T" ->
           Nonbranching(bidx, IF get(bidx, defn.q1)
                              THEN CMul(weight, ComplexNew(RECP_SQRT_2, RECP_SQRT_2))
                              ELSE weight)
      [] defn.kind = "Tdg" ->
           Nonbranching(bidx, IF get(bidx, defn.q1)
                              THEN CMul(weight, ComplexNew(RECP_SQRT_2, CNeg(RECP_SQRT_2)))
                              ELSE weight)
      [] defn.kind = "U" ->
           unitary_push_with(bidx, weight, defn.q1, UMatrix(defn.r1, defn.r2, defn.r3))
      [] defn.kind = "PauliY" ->
           Nonbranching(flip(bidx, defn.q1),
                        IF get(bidx, defn.q1)
                        THEN CMul(weight, ComplexNew(Zero, CNeg(One)))
                        ELSE CMul(weight, ComplexNew(Zero, One)))
      [] defn.kind = "PauliZ" ->
           Nonbranching(bidx, IF get(bidx, defn.q1) THEN CNeg(weight) ELSE weight)
      [] defn.kind = "X" ->
           Nonbranching(flip(bidx, defn.q1), weight)

push_apply(defn, bidx, weight) ==
    CASE defn.kind = "CCX" ->
           Nonbranching(IF get(bidx, defn.q1) /\ get(bidx, defn.q2)
                        THEN flip(bidx, defn.q3) ELSE bidx, weight)
      [] defn.kind = "CPhase" ->
           Nonbranching(bidx, IF get(bidx, defn.q1) /\ get(bidx, defn.q2)
                              THEN CMul(weight, ComplexNew(Cos(defn.r1), Sin(defn.r1)))
                              ELSE weight)
      [] defn.kind = "CSwap" ->
           Nonbranching(IF get(bidx, defn.q1)
                        THEN swap(bidx, defn.q2, defn.q3) ELSE bidx, weight)
      [] defn.kind = "CX" ->
           Nonbranching(IF get(bidx, defn.q1) THEN flip(bidx, defn.q2) ELSE bidx, weight)
      [] defn.kind = "CZ" ->
           Nonbranching(bidx, IF get(bidx, defn.q1) /\ get(bidx, defn.q2)
                              THEN CNeg(weight) ELSE weight)
      [] defn.kind = "FSim" ->
           IF ~get(bidx, defn.q1) /\ ~get(bidx, defn.q2)
           THEN Nonbranching(bidx, weight)
           ELSE IF get(bidx, defn.q1) /\ get(bidx, defn.q2)
           THEN Nonbranching(bidx, CMul(weight, ComplexNew(Cos(defn.r2), Sin(defn.r2))))
           ELSE LET bidx0 == set(unset(bidx, defn.q1), defn.q2)
                    bidx1 == set(unset(bidx, defn.q2), defn.q1)
                    weight_a == CMul(weight, ComplexNew(Cos(defn.r1), Zero))
                    weight_b == CMul(weight, ComplexNew(Zero, CNeg(Sin(defn.r1))))
                IN  IF get(bidx, defn.q1)
                    THEN Branching(<<bidx0, weight_b>>, <<bidx1, weight_a>>)
                    ELSE Branching(<<bidx0, weight_a>>, <<bidx1, weight_b>>)
      [] defn.kind = "Hadamard" ->
           LET new_weight == CMul(weight, RECP_SQRT_2)
           IN  IF get(bidx, defn.q1)
               THEN Branching(<<unset(bidx, defn.q1), new_weight>>,
                              <<set(bidx, defn.q1), CNeg(new_weight)>>)
               ELSE Branching(<<unset(bidx, defn.q1), new_weight>>,
                              <<set(bidx, defn.q1), new_weight>>)
      [] defn.kind = "Phase" ->
           Nonbranching(bidx, IF get(bidx, defn.q1)
                              THEN CMul(weight, ComplexNew(Cos(defn.r1), Sin(defn.r1)))
                              ELSE weight)
      [] defn.kind = "RX" ->
           unitary_push_with(bidx, weight, defn.q1, RXMatrix(defn.r1))
      [] defn.kind = "RY" ->
           IF get(bidx, defn.q1)
           THEN Branching(<<unset(bidx, defn.q1), CMul(weight, CNeg(Sin(defn.r1 \div 2)))>>,
                          <<set(bidx, defn.q1), CMul(weight, Cos(defn.r1 \div 2))>>)
           ELSE Branching(<<unset(bidx, defn.q1), CMul(weight, Cos(defn.r1 \div 2))>>,
                          <<set(bidx, defn.q1), CMul(weight, Sin(defn.r1 \div 2))>>)
      [] defn.kind = "RZ" ->
           Nonbranching(bidx,
               IF get(bidx, defn.q1)
               THEN CMul(weight, ComplexNew(Cos(defn.r1 \div 2), Sin(defn.r1 \div 2)))
               ELSE CMul(weight, ComplexNew(Cos(defn.r1 \div 2), CNeg(Sin(defn.r1 \div 2)))))
      [] defn.kind = "S" ->
           Nonbranching(bidx, IF get(bidx, defn.q1)
                              THEN CMul(weight, ComplexNew(Zero, One)) ELSE weight)
      [] defn.kind = "Sdg" ->
           Nonbranching(bidx, IF get(bidx, defn.q1)
                              THEN CMul(weight, ComplexNew(Zero, CNeg(One))) ELSE weight)
      [] defn.kind = "Swap" ->
           Nonbranching(swap(bidx, defn.q1, defn.q2), weight)
      [] defn.kind = "SqrtX" ->
           LET weight_a == CMul(weight, <<1, 0, 1, 0, 1>>)
               weight_b == CMul(weight, <<1, 0, -1, 0, 1>>)
           IN  IF get(bidx, defn.q1)
               THEN Branching(<<unset(bidx, defn.q1), weight_b>>, <<set(bidx, defn.q1), weight_a>>)
               ELSE Branching(<<unset(bidx, defn.q1), weight_a>>, <<set(bidx, defn.q1), weight_b>>)
      [] defn.kind = "SqrtXdg" ->
           LET weight_a == CMul(weight, <<1, 0, 1, 0, 1>>)
               weight_b == CMul(weight, <<1, 0, -1, 0, 1>>)
           IN  IF get(bidx, defn.q1)
               THEN Branching(<<unset(bidx, defn.q1), weight_a>>, <<set(bidx, defn.q1), weight_b>>)
               ELSE Branching(<<unset(bidx, defn.q1), weight_b>>, <<set(bidx, defn.q1), weight_a>>)
      [] defn.kind = "T" ->
           Nonbranching(bidx, IF get(bidx, defn.q1)
                              THEN CMul(weight, ComplexNew(RECP_SQRT_2, RECP_SQRT_2))
                              ELSE weight)
      [] defn.kind = "Tdg" ->
           Nonbranching(bidx, IF get(bidx, defn.q1)
                              THEN CMul(weight, ComplexNew(RECP_SQRT_2, CNeg(RECP_SQRT_2)))
                              ELSE weight)
      [] defn.kind = "U" ->
           unitary_push_with(bidx, weight, defn.q1, UMatrix(defn.r1, defn.r2, defn.r3))
      [] defn.kind = "PauliY" ->
           Nonbranching(flip(bidx, defn.q1),
                        IF get(bidx, defn.q1)
                        THEN CMul(weight, ComplexNew(Zero, CNeg(One)))
                        ELSE CMul(weight, ComplexNew(Zero, One)))
      [] defn.kind = "PauliZ" ->
           Nonbranching(bidx, IF get(bidx, defn.q1) THEN CNeg(weight) ELSE weight)
      [] defn.kind = "X" ->
           Nonbranching(flip(bidx, defn.q1), weight)

\* branching_type that classifies every gate but Other as Nonbranching
branching_type_nonbranching(defn) ==
    IF defn.kind = "Other" THEN "unimplemented" ELSE "Nonbranching"

branching_type(defn) ==
    IF defn.kind \in {"CCX", "CPhase", "CSwap", "CX", "CZ", "PauliY", "PauliZ", "Phase",
                      "RZ", "S", "Sdg", "Swap", "T", "Tdg", "X"}
    THEN "Nonbranching"
    ELSE IF defn.kind \in {"Hadamard", "RY", "SqrtX", "SqrtXdg"}
    THEN "Branching"
    ELSE IF defn.kind \in {"FSim", "RX", "U"}
    THEN "MaybeBranching"
    ELSE "unimplemented"

is_branching(defn) == branching_type(defn) # "Nonbranching"

----------------------------------------------------------------------------
(* Pull semantics.  Gate::new stores create_pull_action(defn, touches) in  *)
(* pull_action: an Option of a closure.  XxxIsSome says whether the Option *)
(* is Some, and the operator of the same name applies the closure.         *)

\* the two assert!s single_qubit_unitary_pull starts with: TRUE when both pass
single_qubit_unitary_pull_asserts(a, b, c, d) ==
    /\ ~(is_zero(a) /\ is_zero(b))
    /\ ~(is_zero(c) /\ is_zero(d))

\* single_qubit_unitary_pull that reads columns where the code reads rows
single_qubit_unitary_pull_columns(bidx, target, a, b, c, d) ==
    IF is_zero(a) /\ is_zero(d)
    THEN Nonbranching(flip(bidx, target), IF get(bidx, target) THEN b ELSE c)
    ELSE IF is_zero(c) /\ is_zero(b)
    THEN Nonbranching(bidx, IF get(bidx, target) THEN d ELSE a)
    ELSE IF get(bidx, target)
         THEN Branching(<<unset(bidx, target), b>>, <<set(bidx, target), d>>)
         ELSE Branching(<<unset(bidx, target), a>>, <<set(bidx, target), c>>)

\* what follows the assert!s
single_qubit_unitary_pull(bidx, target, a, b, c, d) ==
    IF is_zero(a) /\ is_zero(d)
    THEN Nonbranching(flip(bidx, target), IF get(bidx, target) THEN c ELSE b)
    ELSE IF is_zero(c) /\ is_zero(b)
    THEN Nonbranching(bidx, IF get(bidx, target) THEN d ELSE a)
    ELSE IF get(bidx, target)
         THEN Branching(<<unset(bidx, target), c>>, <<set(bidx, target), d>>)
         ELSE Branching(<<unset(bidx, target), a>>, <<set(bidx, target), b>>)

\* single_qubit_unitary_pull on the matrix m = <<a, b, c, d>>
unitary_pull_with(bidx, target, m) ==
    single_qubit_unitary_pull(bidx, target, m[1], m[2], m[3], m[4])

\* push_to_pull that returns Some for every gate
push_to_pull_IsSome_any(defn, touches) == TRUE

push_to_pull_IsSome(defn, touches) ==
    \/ Len(touches) = 1 /\ branching_type(defn) = "Nonbranching"
    \/ Len(touches) = 2 /\ branching_type(defn) = "Nonbranching"
    \/ Len(touches) = 1 /\ branching_type(defn) = "Branching"

\* the probes push_to_pull makes: push_apply(basis, 1) for each listed basis
Probes(defn, bases) == [i \in 1 .. Len(bases) |-> push_apply(defn, bases[i], One)]

\* push_to_pull_1N with the two multipliers of a bit-flipping gate exchanged
push_to_pull_1N_swapped(qi, probes, bidx) ==
    IF probes[1][1][1] = zeros
    THEN Nonbranching(bidx, IF get(bidx, qi) THEN probes[2][1][2] ELSE probes[1][1][2])
    ELSE Nonbranching(flip(bidx, qi), IF get(bidx, qi) THEN probes[2][1][2] ELSE probes[1][1][2])

\* (1, Nonbranching): probes = push on <<zeros, zeros.set(qi)>>
push_to_pull_1N(qi, probes, bidx) ==
    LET b0 == probes[1][1][1]
        m0 == probes[1][1][2]
        m1 == probes[2][1][2]
    IN  IF b0 = zeros
        THEN Nonbranching(bidx, IF get(bidx, qi) THEN m1 ELSE m0)
        ELSE Nonbranching(flip(bidx, qi), IF get(bidx, qi) THEN m0 ELSE m1)

\* (2, Nonbranching): probes = push on a = <<a00, a01, a10, a11>>
push_to_pull_2N(qi, qj, a, probes, bidx) ==
    LET apply_match(left, right, bb) == left = get(bb, qi) /\ right = get(bb, qj)
        find(left, right) ==
            IF apply_match(left, right, probes[1][1][1]) THEN <<a[1], probes[1][1][2]>>
            ELSE IF apply_match(left, right, probes[2][1][1]) THEN <<a[2], probes[2][1][2]>>
            ELSE IF apply_match(left, right, probes[3][1][1]) THEN <<a[3], probes[3][1][2]>>
            ELSE <<a[4], probes[4][1][2]>>
        align_with(bb, bi) ==
            LET x == IF get(bb, qi) THEN set(bi, qi) ELSE unset(bi, qi)
            IN  IF get(bb, qj) THEN set(x, qj) ELSE unset(x, qj)
        new == find(get(bidx, qi), get(bidx, qj))
    IN  Nonbranching(align_with(new[1], bidx), new[2])

\* (1, Branching): probes = push on <<zeros, zeros.set(qi)>>; the branches of
\* each probe are ordered by the bit of their output
push_to_pull_1B(qi, probes, bidx) ==
    LET o0 == probes[1]
        o1 == probes[2]
        c0 == IF get(o0[1][1], qi) THEN <<o0[2], o0[1]>> ELSE <<o0[1], o0[2]>>
        c1 == IF get(o1[1][1], qi) THEN <<o1[2], o1[1]>> ELSE <<o1[1], o1[2]>>
        m00 == c0[1][2]
        m01 == c0[2][2]
        m10 == c1[1][2]
        m11 == c1[2][2]
    IN  IF get(bidx, qi)
        THEN Branching(<<unset(bidx, qi), m01>>, <<bidx, m11>>)
        ELSE Branching(<<bidx, m00>>, <<set(bidx, qi), m10>>)

push_to_pull(defn, touches, bidx) ==
    IF Len(touches) = 1 /\ branching_type(defn) = "Nonbranching"
    THEN push_to_pull_1N(touches[1],
             Probes(defn, <<zeros, set(zeros, touches[1])>>), bidx)
    ELSE IF Len(touches) = 2 /\ branching_type(defn) = "Nonbranching"
    THEN push_to_pull_2N(touches[1], touches[2],
             <<zeros, set(zeros, touches[2]), set(zeros, touches[1]),
               set(set(zeros, touches[1]), touches[2])>>,
             Probes(defn, <<zeros, set(zeros, touches[2]), set(zeros, touches[1]),
                            set(set(zeros, touches[1]), touches[2])>>),
             bidx)
    ELSE push_to_pull_1B(touches[1],
             Probes(defn, <<zeros, set(zeros, touches[1])>>), bidx)

DerivedKinds ==
    {"CCX", "CPhase", "CSwap", "Swap", "FSim", "PauliY", "PauliZ", "S", "Sdg", "T", "Tdg", "X"}

\* create_pull_action that returns for every gate
create_pull_action_always(defn) == FALSE

\* create_pull_action's arm for Other: unimplemented!(), so Gate::new(defn)
\* does not return
create_pull_action_unimplemented(defn) == defn.kind = "Other"

create_pull_action_IsSome(defn, touches) ==
    IF defn.kind \in DerivedKinds THEN push_to_pull_IsSome(defn, touches) ELSE TRUE

create_pull_action(defn, touches, bidx) ==
    CASE defn.kind \in DerivedKinds -> push_to_pull(defn, touches, bidx)
      [] defn.kind = "CX" ->
           IF get(bidx, defn.q1)
           THEN Nonbranching(flip(bidx, defn.q2), ComplexNew(One, Zero))
           ELSE Nonbranching(bidx, ComplexNew(One, Zero))
      [] defn.kind = "CZ" ->
           IF get(bidx, defn.q1) /\ get(bidx, defn.q2)
           THEN Nonbranching(bidx, ComplexNew(CNeg(One), Zero))
           ELSE Nonbranching(bidx, ComplexNew(One, Zero))
      [] defn.kind = "Hadamard" ->
           IF get(bidx, defn.q1)
           THEN Branching(<<unset(bidx, defn.q1), ComplexNew(RECP_SQRT_2, Zero)>>,
                          <<set(bidx, defn.q1), ComplexNew(CNeg(RECP_SQRT_2), Zero)>>)
           ELSE Branching(<<unset(bidx, defn.q1), ComplexNew(RECP_SQRT_2, Zero)>>,
                          <<set(bidx, defn.q1), ComplexNew(RECP_SQRT_2, Zero)>>)
      [] defn.kind = "Phase" ->
           IF get(bidx, defn.q1)
           THEN Nonbranching(bidx, ComplexNew(Cos(defn.r1), Sin(defn.r1)))
           ELSE Nonbranching(bidx, ComplexNew(One, Zero))
      [] defn.kind = "RX" ->
           unitary_pull_with(bidx, defn.q1, RXMatrix(defn.r1))
      [] defn.kind = "RY" ->
           LET cos == Cos(defn.r1 \div 2)
               sin == Sin(defn.r1 \div 2)
           IN  IF get(bidx, defn.q1)
               THEN Branching(<<unset(bidx, defn.q1), ComplexNew(sin, Zero)>>,
                              <<set(bidx, defn.q1), ComplexNew(cos, Zero)>>)
               ELSE Branching(<<unset(bidx, defn.q1), ComplexNew(cos, Zero)>>,
                              <<set(bidx, defn.q1), ComplexNew(CNeg(sin), Zero)>>)
      [] defn.kind = "RZ" ->
           LET cos == Cos(defn.r1 \div 2)
               sin == Sin(defn.r1 \div 2)
           IN  IF get(bidx, defn.q1)
               THEN Nonbranching(bidx, ComplexNew(cos, sin))
               ELSE Nonbranching(bidx, ComplexNew(cos, CNeg(sin)))
      [] defn.kind = "SqrtX" ->
           IF get(bidx, defn.q1)
           THEN Branching(<<unset(bidx, defn.q1), <<1, 0, -1, 0, 1>> >>,
                          <<set(bidx, defn.q1), <<1, 0, 1, 0, 1>> >>)
           ELSE Branching(<<unset(bidx, defn.q1), <<1, 0, 1, 0, 1>> >>,
                          <<set(bidx, defn.q1), <<1, 0, -1, 0, 1>> >>)
      [] defn.kind = "SqrtXdg" ->
           IF get(bidx, defn.q1)
           THEN Branching(<<unset(bidx, defn.q1), <<1, 0, 1, 0, 1>> >>,
                          <<set(bidx, defn.q1), <<1, 0, -1, 0, 1>> >>)
           ELSE Branching(<<unset(bidx, defn.q1), <<1, 0, -1, 0, 1>> >>,
                          <<set(bidx, defn.q1), <<1, 0, 1, 0, 1>> >>)
      [] defn.kind = "U" ->
           unitary_pull_with(bidx, defn.q1, UMatrix(defn.r1, defn.r2, defn.r3))

\* Gate::new(defn): the record (defn, touches, pull_action)
is_pullable(defn) == create_pull_action_IsSome(defn, create_touches(defn))
pull_action(defn, bidx) == create_pull_action(defn, create_touches(defn), bidx)

----------------------------------------------------------------------------
(* Decomposition of CCX and CSwap into smaller gates.                      *)

decompose_ccx(defn) ==
    IF defn.kind = "CCX"
    THEN LET control1 == defn.q1
             control2 == defn.q2
             target == defn.q3
         IN  <<Hadamard(target),
               CX(control2, target),
               Tdg(target),
               CX(control1, target),
               T(target),
               CX(control2, target),
               Tdg(target),
               CX(control1, target),
               T(control2),
               T(target),
               Hadamard(target)>>
    ELSE <<>>

RECURSIVE decompose_gate(_)

\* decompose_cswap that leaves the middle CCX as it is
decompose_cswap_keep_ccx(gate) ==
    IF gate.kind = "CSwap"
    THEN <<CX(gate.q2, gate.q3), CCX(gate.q1, gate.q3, gate.q2), CX(gate.q2, gate.q3)>>
    ELSE <<>>

decompose_cswap(gate) ==
    IF gate.kind = "CSwap"
    THEN LET control == gate.q1
             target1 == gate.q2
             target2 == gate.q3
         IN  <<CX(target1, target2)>>
             \o decompose_gate(CCX(control, target2, target1))
             \o <<CX(target1, target2)>>
    ELSE <<>>

\* decompose_gate without the arm for CSwap
decompose_gate_ccx_only(defn) ==
    IF defn.kind = "CCX" THEN decompose_ccx(defn) ELSE <<defn>>

decompose_gate(defn) ==
    IF defn.kind = "CCX" THEN decompose_ccx(defn)
    ELSE IF defn.kind = "CSwap" THEN decompose_cswap(defn)
    ELSE <<defn>>

----------------------------------------------------------------------------
(* State tables.  A DenseStateTable is a function from 0 .. 2^N - 1 to     *)
(* Complex; a SparseStateTable is a record of its capacity and a function  *)
(* from the occupied keys to Complex.  A State is [kind, table].           *)

\* mps_simulator::dense_table::DenseStateTable: new, and put that stores the
\* weight instead of adding it
MpsDenseStateTable_new(n) == [i \in 0 .. Pow2(n) - 1 |-> Zero]

put_overwriting(arr, bidx, weight) == [arr EXCEPT ![bidx] = weight]

\* Table::put: self.array[idx] += weight
put(arr, bidx, weight) == [arr EXCEPT ![bidx] = CAdd(@, weight)]

DenseStateTable_new(num_qubits) == [i \in 0 .. Pow2(num_qubits) - 1 |-> Zero]

atomic_put(table, bidx, weight) == [table EXCEPT ![bidx] = CAdd(@, weight)]

Dense_num_nonzeros(table) == Cardinality({i \in DOMAIN table : is_nonzero(table[i])})

StateDense(table) == [kind |-> "Dense", table |-> table]
StateSparse(table) == [kind |-> "Sparse", table |-> table]

\* the keys of a set of integers in increasing order
RECURSIVE SortedSeq(_)
SortedSeq(keys) ==
    IF keys = {} THEN <<>>
    ELSE LET m == CHOOSE k \in keys : \A j \in keys : k <= j
         IN  <<m>> \o SortedSeq(keys \ {m})

\* SparseStateTable::nonzeros(): the pairs whose weight is nonzero
Sparse_nonzeros(table) ==
    LET ks == SortedSeq({k \in DOMAIN table.cells : is_nonzero(table.cells[k])})
    IN  [i \in 1 .. Len(ks) |-> <<ks[i], table.cells[ks[i]]>>]

Sparse_num_nonzeros(table) ==
    Cardinality({k \in DOMAIN table.cells : is_nonzero(table.cells[k])})

State_num_nonzeros(state) ==
    IF state.kind = "Sparse" THEN Sparse_num_nonzeros(state.table)
    ELSE Dense_num_nonzeros(state.table)

\* State::get(&bidx): None is modelled by the caller's unwrap_or(0)
State_get(state, bidx) ==
    IF state.kind = "Sparse"
    THEN IF bidx \in DOMAIN state.table.cells THEN state.table.cells[bidx] ELSE Zero
    ELSE state.table[bidx]

----------------------------------------------------------------------------
(* Dense push and dense pull (parallel_simulator/state_expander.rs).       *)

\* apply_gates: the atomic_puts it issues, in order, and the count it returns
RECURSIVE apply_gates(_, _, _)

\* 1 + apply_gates(..) of the Nonbranching arm
apply_gates_one(r) == [puts |-> r.puts, apps |-> 1 + r.apps]
\* the Branching arm without the puts of its second branch
apply_gates_two_first(r1, r2) == [puts |-> r1.puts, apps |-> 1 + r1.apps + r2.apps]

\* 1 + num_gate_apps_1 + num_gate_apps_2 of the Branching arm
apply_gates_two(r1, r2) == [puts |-> r1.puts \o r2.puts, apps |-> 1 + r1.apps + r2.apps]

\* the match on the output of gates[0].push_apply
apply_gates_of(rest, out) ==
    IF Len(out) = 1
    THEN apply_gates_one(apply_gates(rest, out[1][1], out[1][2]))
    ELSE apply_gates_two(apply_gates(rest, out[1][1], out[1][2]),
                         apply_gates(rest, out[2][1], out[2][2]))

apply_gates(gates, bidx, weight) ==
    IF is_zero(weight) THEN [puts |-> <<>>, apps |-> 0]
    ELSE IF gates = <<>> THEN [puts |-> << <<bidx, weight>> >>, apps |-> 0]
    ELSE apply_gates_of(Tail(gates), push_apply(gates[1], bidx, weight))

RECURSIVE PutAll(_, _)
PutAll(table, puts) ==
    IF puts = <<>> THEN table
    ELSE PutAll(atomic_put(table, puts[1][1], puts[1][2]), Tail(puts))

\* the source entries expand_push_dense iterates over
PushDenseSources(state) ==
    IF state.kind = "Sparse" THEN Sparse_nonzeros(state.table)
    ELSE [i \in 1 .. Cardinality(DOMAIN state.table) |-> <<i - 1, state.table[i - 1]>>]

\* the map over the sources and the sum of the counts; r is apply_gates on
\* the first source
RECURSIVE PushDenseFold(_, _, _, _)
PushDenseFold_with(gates, sources, table, apps, r) ==
    PushDenseFold(gates, Tail(sources), PutAll(table, r.puts), apps + r.apps)

PushDenseFold(gates, sources, table, apps) ==
    IF sources = <<>> THEN [table |-> table, apps |-> apps]
    ELSE PushDenseFold_with(gates, sources, table, apps,
                            apply_gates(gates, sources[1][1], sources[1][2]))

expand_push_dense_of(r) ==
    [state |-> StateDense(r.table),
     num_nonzeros |-> Dense_num_nonzeros(r.table),
     num_gate_apps |-> r.apps,
     method |-> "PushDense"]

expand_push_dense(gates, num_qubits, state) ==
    expand_push_dense_of(
        PushDenseFold(gates, PushDenseSources(state), DenseStateTable_new(num_qubits), 0))

RECURSIVE apply_pull_gates(_, _, _)

\* (weight * multiplier, 1 + num_gate_apps) of the Nonbranching arm
apply_pull_gates_one(multiplier, r) == <<CMul(r[1], multiplier), 1 + r[2]>>
\* the Branching arm
apply_pull_gates_two(multiplier1, multiplier2, r1, r2) ==
    <<CAdd(CMul(r1[1], multiplier1), CMul(r2[1], multiplier2)), 1 + r1[2] + r2[2]>>

\* the match on the output of gates[0].pull_action
apply_pull_gates_of(rest, prev_state, out) ==
    IF Len(out) = 1
    THEN apply_pull_gates_one(out[1][2], apply_pull_gates(rest, prev_state, out[1][1]))
    ELSE apply_pull_gates_two(out[1][2], out[2][2],
                              apply_pull_gates(rest, prev_state, out[1][1]),
                              apply_pull_gates(rest, prev_state, out[2][1]))

\* the walk from the last gate of the kernel to the first
apply_pull_gates_last_first(gates, prev_state, bidx) ==
    IF gates = <<>> THEN <<State_get(prev_state, bidx), 0>>
    ELSE apply_pull_gates_of(SubSeq(gates, 1, Len(gates) - 1), prev_state,
                             pull_action(gates[Len(gates)], bidx))

apply_pull_gates(gates, prev_state, bidx) ==
    IF gates = <<>> THEN <<State_get(prev_state, bidx), 0>>
    ELSE apply_pull_gates_of(Tail(gates), prev_state, pull_action(gates[1], bidx))

\* the fold over 0 .. capacity - 1; r is apply_pull_gates on idx
RECURSIVE PullDenseFold(_, _, _, _, _)
\* the turn of the fold counting every cell it writes
PullDenseFold_with_all(gates, state, idx, capacity, acc, r) ==
    PullDenseFold(gates, state, idx + 1, capacity,
        [table |-> atomic_put(acc.table, idx, r[1]),
         apps |-> acc.apps + r[2],
         nonzeros |-> acc.nonzeros + 1])

PullDenseFold_with(gates, state, idx, capacity, acc, r) ==
    PullDenseFold(gates, state, idx + 1, capacity,
        [table |-> atomic_put(acc.table, idx, r[1]),
         apps |-> acc.apps + r[2],
         nonzeros |-> acc.nonzeros + (IF is_nonzero(r[1]) THEN 1 ELSE 0)])

PullDenseFold(gates, state, idx, capacity, acc) ==
    IF idx = capacity THEN acc
    ELSE PullDenseFold_with(gates, state, idx, capacity, acc,
                            apply_pull_gates(gates, state, idx))

expand_pull_dense_of(r) ==
    [state |-> StateDense(r.table),
     num_nonzeros |-> r.nonzeros,
     num_gate_apps |-> r.apps,
     method |-> "PullDense"]

expand_pull_dense(gates, num_qubits, state) ==
    expand_pull_dense_of(
        PullDenseFold(gates, state, 0, Pow2(num_qubits),
            [table |-> DenseStateTable_new(num_qubits), apps |-> 0, nonzeros |-> 0]))

----------------------------------------------------------------------------
(* The density estimate and the sparse table.  expected_cost and           *)
(* SparseStateTable are specified in sections 4.2 and 4.4.  Config values  *)
(* that are fractions (dense_threshold, pull_threshold, maxload) are pairs *)
(* <<numerator, denominator>>, and densities are compared exactly.         *)

\* expected = min(M, rate * C) with rate = max(1, C / P), truncated; a zero P
\* makes the rate infinite, or 1 when C is zero too
expected_cost(num_qubits, nonzeros, prev_nonzeros) ==
    IF nonzeros = 0 THEN 0
    ELSE IF prev_nonzeros = 0 THEN Pow2(num_qubits)
    ELSE IF (nonzeros * nonzeros) \div prev_nonzeros > nonzeros
    THEN IF (nonzeros * nonzeros) \div prev_nonzeros < Pow2(num_qubits)
         THEN (nonzeros * nonzeros) \div prev_nonzeros ELSE Pow2(num_qubits)
    ELSE nonzeros

\* expected / 2^num_qubits < threshold
DensityBelow(expected, num_qubits, threshold) ==
    expected * threshold[2] < threshold[1] * Pow2(num_qubits)

\* the least power of two, from p on, that is at least n
RECURSIVE PowerOfTwoAtLeast(_, _)
PowerOfTwoAtLeast(p, n) == IF p >= n THEN p ELSE PowerOfTwoAtLeast(2 * p, n)

\* capacity: the power of two chosen from expected_num_nonzeros / maxload
SparseStateTable_new(num_qubits, maxload, expected_num_nonzeros) ==
    [capacity |-> PowerOfTwoAtLeast(1,
                      (expected_num_nonzeros * maxload[2] + maxload[1] - 1) \div maxload[1]),
     cells |-> <<>>]

\* try_put, the outcomes it can have (TRUE is Ok, FALSE is Overflow): a key of
\* the table is found again; a new key finds an empty slot for certain while
\* fewer than maxload * capacity slots are occupied, and after that only if
\* its probes happen to meet one
try_put_outcomes(table, bidx, maxload) ==
    IF bidx \in DOMAIN table.cells THEN {TRUE}
    ELSE IF Cardinality(DOMAIN table.cells) < (maxload[1] * table.capacity) \div maxload[2]
    THEN {TRUE}
    ELSE IF Cardinality(DOMAIN table.cells) < table.capacity THEN {TRUE, FALSE}
    ELSE {FALSE}

\* the table after a try_put that returned Ok
try_put(table, bidx, weight) ==
    [table EXCEPT !.cells =
        IF bidx \in DOMAIN @ THEN [@ EXCEPT ![bidx] = CAdd(@, weight)]
        ELSE [k \in DOMAIN @ \cup {bidx} |-> IF k = bidx THEN weight ELSE @[k]]]

\* increase_capacity_by_factor(1.5): a fresh table of 1.5 times the capacity
\* (rounded up); entries are not copied
increase_capacity_by_factor(table) ==
    [capacity |-> (3 * table.capacity + 1) \div 2, cells |-> <<>>]

----------------------------------------------------------------------------
(* expand_sparse (parallel_simulator/state_expander.rs).  A suspended path *)
(* is <<bidx, weight, gatenum>>.  The calls of apply_gates1 / apply_gates2 *)
(* in progress are a stack of suspended paths: its head is the path being  *)
(* applied, the rest are the second branches still to be applied, the most *)
(* recent first.                                                           *)

\* the match with the second branch resuming one gate further on
successors_skip(out, gatenum) ==
    IF Len(out) = 1 THEN << <<out[1][1], out[1][2], gatenum + 1>> >>
    ELSE << <<out[1][1], out[1][2], gatenum + 1>>, <<out[2][1], out[2][2], gatenum + 2>> >>

\* the match on gates[gatenum].push_apply(bidx, weight): the calls of
\* apply_gates1 that replace the path at the head of the stack
successors(out, gatenum) ==
    IF Len(out) = 1 THEN << <<out[1][1], out[1][2], gatenum + 1>> >>
    ELSE << <<out[1][1], out[1][2], gatenum + 1>>, <<out[2][1], out[2][2], gatenum + 1>> >>

\* n: the number of source entries
sparse_n(state) ==
    IF state.kind = "Sparse" THEN Sparse_num_nonzeros(state.table)
    ELSE Cardinality(DOMAIN state.table)

\* get(i)
sparse_get(state, i) ==
    IF state.kind = "Sparse" THEN Sparse_nonzeros(state.table)[i + 1]
    ELSE <<i, state.table[i]>>

block_size_of(n, config) ==
    IF (IF n \div 1000 < config.block_size THEN n \div 1000 ELSE config.block_size) > 100
    THEN (IF n \div 1000 < config.block_size THEN n \div 1000 ELSE config.block_size)
    ELSE 100

block_stop(b, n, config) ==
    IF n < block_size_of(n, config) * (b + 1) THEN n ELSE block_size_of(n, config) * (b + 1)

\* (0..num_blocks).map(|b| (b, block_start(b), vec![]))
initial_blocks(n, config) ==
    [k \in 1 .. (n + block_size_of(n, config) - 1) \div block_size_of(n, config) |->
        [b |-> k - 1, s |-> block_size_of(n, config) * (k - 1), ps |-> <<>>]]

\* the closure of the parallel map about to run on each block
spawn(blocks) ==
    [k \in 1 .. Len(blocks) |->
        [b |-> blocks[k].b, s |-> blocks[k].s, pc |-> "step1", step |-> 1,
         i |-> blocks[k].s, s2 |-> blocks[k].s, ps2 |-> blocks[k].ps, stack |-> <<>>]]

\* the filter that drops fully processed blocks, as one that keeps every block
block_unfinished_always(w, n, config) == TRUE

\* .filter(|(b, s, ps)| s < &block_stop(*b) || !ps.is_empty())
block_unfinished(w, n, config) == w.s2 < block_stop(w.b, n, config) \/ w.ps2 # <<>>

\* the blocks collected from the closures ws, from the k-th on
RECURSIVE collect_blocks(_, _, _, _)
collect_blocks(ws, k, n, config) ==
    IF k > Len(ws) THEN <<>>
    ELSE (IF block_unfinished(ws[k], n, config)
          THEN << [b |-> ws[k].b, s |-> ws[k].s2, ps |-> ws[k].ps2] >> ELSE <<>>)
         \o collect_blocks(ws, k + 1, n, config)

\* apply_gates1 has returned AllSucceeded to the loop of step (1) or (2)
all_succeeded(w, stop) ==
    IF w.step = 1 THEN [w EXCEPT !.pc = "step1", !.stack = <<>>]
    ELSE [w EXCEPT !.pc = "step2", !.stack = <<>>, !.i = w.i + 1,
                   !.s2 = IF w.i + 1 = stop THEN w.i + 1 ELSE w.s2]

\* SomeFailed with the failed path recorded one gate back
some_failed_one_back(w) ==
    [w EXCEPT !.pc = "done", !.stack = <<>>,
              !.ps2 = w.ps2 \o << <<w.stack[1][1], w.stack[1][2], w.stack[1][3] - 1>> >>
                            \o Tail(w.stack),
              !.s2 = IF w.step = 1 THEN w.s2 ELSE w.i + 1]

\* SomeFailed in step (2) with the cursor left at the failed source entry
some_failed_at_i(w) ==
    [w EXCEPT !.pc = "done", !.stack = <<>>, !.ps2 = w.ps2 \o w.stack,
              !.s2 = IF w.step = 1 THEN w.s2 ELSE w.i]

\* apply_gates1 has returned SomeFailed(fs): fs is the failed path followed by
\* the second branches not yet applied
some_failed(w) ==
    [w EXCEPT !.pc = "done", !.stack = <<>>, !.ps2 = w.ps2 \o w.stack,
              !.s2 = IF w.step = 1 THEN w.s2 ELSE w.i + 1]

\* the closure goes on with the calls of apply_gates1 left on the stack
continue_with(w, stack, stop) ==
    IF stack = <<>> THEN all_succeeded(w, stop)
    ELSE [w EXCEPT !.pc = "apply", !.stack = stack]

----------------------------------------------------------------------------
(* gate_scheduler::GreedyNonbranchingGateScheduler.  Gates and qubits are  *)
(* numbered from 0.  tch is gate_touches: for each gate the sequence in    *)
(* which its HashSet of qubits is iterated; br is gate_is_branching; fr is *)
(* the frontier.  A run of the scheduler's code is a record                *)
(* [frontier, picked, panic]: the frontier it leaves, the gates it has     *)
(* visited in order, and whether an assertion or an index failed.          *)

max_branching_stride == 2

RECURSIVE next_touch(_, _, _, _)
next_touch(ng, tch, qi, gi) ==
    IF gi >= ng THEN ng
    ELSE IF \E k \in 1 .. Len(tch[gi]) : tch[gi][k] = qi THEN gi
    ELSE next_touch(ng, tch, qi, gi + 1)

\* iter().all(|qi| frontier[*qi] == gi) over the qubits qs, left to right:
\* "true", "false", or "panic" when frontier is indexed out of range
RECURSIVE all_frontier_is(_, _, _)
all_frontier_is(fr, qs, gi) ==
    IF qs = <<>> THEN "true"
    ELSE IF qs[1] \notin DOMAIN fr THEN "panic"
    ELSE IF fr[qs[1]] # gi THEN "false"
    ELSE all_frontier_is(fr, Tail(qs), gi)

\* okay_to_visit that accepts a gate as soon as one touched qubit is at it
okay_to_visit_any(ng, tch, fr, gi) ==
    IF gi >= ng THEN "false"
    ELSE IF \E k \in 1 .. Len(tch[gi]) : tch[gi][k] \in DOMAIN fr /\ fr[tch[gi][k]] = gi
    THEN "true"
    ELSE "false"

okay_to_visit(ng, tch, fr, gi) ==
    IF gi >= ng THEN "false" ELSE all_frontier_is(fr, tch[gi], gi)

\* the for loop of visit over the qubits qs of gate gi
RECURSIVE visit_loop(_, _, _, _, _)
\* visit that advances the frontier past the gate after gi
visit_loop_skipping(ng, tch, fr, qs, gi) ==
    IF qs = <<>> THEN fr
    ELSE visit_loop(ng, tch, [fr EXCEPT ![qs[1]] = next_touch(ng, tch, qs[1], gi + 2)],
                    Tail(qs), gi)

visit_loop(ng, tch, fr, qs, gi) ==
    IF qs = <<>> THEN fr
    ELSE visit_loop(ng, tch, [fr EXCEPT ![qs[1]] = next_touch(ng, tch, qs[1], gi + 1)],
                    Tail(qs), gi)

\* visit(gi) appended to the run r
visit(ng, tch, r, gi) ==
    IF okay_to_visit(ng, tch, r.frontier, gi) # "true"
    THEN [r EXCEPT !.panic = TRUE]
    ELSE [frontier |-> visit_loop(ng, tch, r.frontier, tch[gi], gi),
          picked |-> Append(r.picked, gi),
          panic |-> r.panic]

\* the inner loop of visit_maximal_nonbranching_run for qubit qi
RECURSIVE run_qubit(_, _, _, _, _)
run_qubit_with(ng, tch, br, r, qi, next_gi, okay) ==
    IF okay = "panic" THEN [r EXCEPT !.panic = TRUE]
    ELSE IF okay = "false" THEN r
    ELSE run_qubit(ng, tch, br, visit(ng, tch, r, next_gi), qi)

run_qubit(ng, tch, br, r, qi) ==
    IF r.panic \/ r.frontier[qi] >= ng \/ br[r.frontier[qi]] THEN r
    ELSE run_qubit_with(ng, tch, br, r, qi, r.frontier[qi],
                        okay_to_visit(ng, tch, r.frontier, r.frontier[qi]))

\* for qi in 0..num_qubits
RECURSIVE run_sweep(_, _, _, _, _, _)
run_sweep(ng, nq, tch, br, r, qi) ==
    IF qi >= nq \/ r.panic THEN r
    ELSE run_sweep(ng, nq, tch, br, run_qubit(ng, tch, br, r, qi), qi + 1)

\* the outer loop: sweep until a sweep selects nothing; r0 is the run before
\* the sweep that produced r
RECURSIVE visit_maximal_nonbranching_run(_, _, _, _, _)
\* the outer loop left after its first sweep
run_again_never(ng, nq, tch, br, r0, r) == r

run_again(ng, nq, tch, br, r0, r) ==
    IF r.panic \/ Len(r.picked) = Len(r0.picked) THEN r
    ELSE visit_maximal_nonbranching_run(ng, nq, tch, br, r)

visit_maximal_nonbranching_run(ng, nq, tch, br, r) ==
    run_again(ng, nq, tch, br, r, run_sweep(ng, nq, tch, br, r, 0))

\* frontier.iter().filter(..).nth(0): the first qubit, from qi on, whose
\* frontier gate is branching and okay to visit: <<"some", gate>>, <<"none">>
\* or <<"panic">>
RECURSIVE first_branching(_, _, _, _, _, _)
first_branching_with(ng, nq, tch, br, fr, qi, okay) ==
    IF okay = "panic" THEN <<"panic">>
    ELSE IF okay = "true" THEN <<"some", fr[qi]>>
    ELSE first_branching(ng, nq, tch, br, fr, qi + 1)

\* the filter of visit_branching without its okay_to_visit test
first_branching_unchecked(ng, nq, tch, br, fr, qi) ==
    IF qi >= nq THEN <<"none">>
    ELSE IF fr[qi] >= ng \/ ~br[fr[qi]] THEN first_branching(ng, nq, tch, br, fr, qi + 1)
    ELSE <<"some", fr[qi]>>

first_branching(ng, nq, tch, br, fr, qi) ==
    IF qi >= nq THEN <<"none">>
    ELSE IF fr[qi] >= ng \/ ~br[fr[qi]] THEN first_branching(ng, nq, tch, br, fr, qi + 1)
    ELSE first_branching_with(ng, nq, tch, br, fr, qi,
                              okay_to_visit(ng, tch, fr, fr[qi]))

\* visit_branching: [run, result] with result the Option it returns
visit_branching_with(ng, tch, r, found) ==
    IF found[1] = "panic" THEN [run |-> [r EXCEPT !.panic = TRUE], result |-> None]
    ELSE IF found[1] = "none" THEN [run |-> r, result |-> None]
    ELSE [run |-> visit(ng, tch, r, found[2]), result |-> Some(found[2])]

visit_branching(ng, nq, tch, br, r) ==
    IF r.panic THEN [run |-> r, result |-> None]
    ELSE visit_branching_with(ng, tch, r, first_branching(ng, nq, tch, br, r.frontier, 0))

\* the while loop of pick_next_gates.  p is [run, branching, runs]: the run
\* so far, num_branching_so_far, and the gates picked after each call of
\* visit_maximal_nonbranching_run (the ends of the nonbranching runs).
RECURSIVE pick_loop(_, _, _, _, _)
pick_loop_with(ng, nq, tch, br, p, r1, vb) ==
    IF vb.result = None
    THEN [run |-> vb.run, branching |-> p.branching,
          runs |-> Append(p.runs, Len(r1.picked))]
    ELSE pick_loop(ng, nq, tch, br,
                   [run |-> vb.run, branching |-> p.branching + 1,
                    runs |-> Append(p.runs, Len(r1.picked))])

pick_loop_run(ng, nq, tch, br, p, r1) ==
    pick_loop_with(ng, nq, tch, br, p, r1, visit_branching(ng, nq, tch, br, r1))

\* the while loop entered once more: num_branching_so_far <= max_branching_stride
pick_loop_one_more(ng, nq, tch, br, p) ==
    IF p.branching > max_branching_stride \/ p.run.panic THEN p
    ELSE pick_loop_run(ng, nq, tch, br, p,
                       visit_maximal_nonbranching_run(ng, nq, tch, br, p.run))

pick_loop(ng, nq, tch, br, p) ==
    IF p.branching >= max_branching_stride \/ p.run.panic THEN p
    ELSE pick_loop_run(ng, nq, tch, br, p,
                       visit_maximal_nonbranching_run(ng, nq, tch, br, p.run))

\* assert!(next_gates.iter().all(|gi| !self.okay_to_visit(*gi)))
picked_all_visited(ng, tch, fr, picked) ==
    \A k \in 1 .. Len(picked) : okay_to_visit(ng, tch, fr, picked[k]) = "false"

pick_next_gates_of(ng, tch, p) ==
    [frontier |-> p.run.frontier,
     next_gates |-> p.run.picked,
     runs |-> p.runs,
     panic |-> p.run.panic \/ ~picked_all_visited(ng, tch, p.run.frontier, p.run.picked)]

pick_next_gates(ng, nq, tch, br, fr) ==
    pick_next_gates_of(ng, tch,
        pick_loop(ng, nq, tch, br,
                  [run |-> [frontier |-> fr, picked |-> <<>>, panic |-> FALSE],
                   branching |-> 0, runs |-> <<>>]))

\* an initial frontier with every qubit at gate 0
new_frontier_zero(ng, nq, tch) == [qi \in 0 .. nq - 1 |-> 0]

\* GreedyNonbranchingGateScheduler::new: the initial frontier
new_frontier(ng, nq, tch) == [qi \in 0 .. nq - 1 |-> next_touch(ng, tch, qi, 0)]

----------------------------------------------------------------------------
(* Inputs: gates, kernels and previous states.                             *)

\* angles (units of pi/4) given to Phase, CPhase and FSim's phi
PhaseAngles == {1, 2, 5}
\* angles (units of pi/4) given to RX, RY, RZ; the code halves them
RotAngles == {0, 2, 4, 6, 10}

OneQubitKinds == {"Hadamard", "PauliY", "PauliZ", "S", "Sdg", "SqrtX", "SqrtXdg", "T", "Tdg", "X"}

AllGateDefns(n) ==
    LET Q == 0 .. n - 1
        Q2 == {p \in Q \X Q : p[1] # p[2]}
        Q3 == {p \in Q \X Q \X Q : p[1] # p[2] /\ p[1] # p[3] /\ p[2] # p[3]}
    IN  {GateRec(k, q, 0, 0, 0, 0, 0) : k \in OneQubitKinds, q \in Q}
        \cup {Phase(r, q) : r \in PhaseAngles, q \in Q}
        \cup {RX(r, q) : r \in RotAngles, q \in Q}
        \cup {RY(r, q) : r \in RotAngles, q \in Q}
        \cup {RZ(r, q) : r \in RotAngles, q \in Q}
        \cup {U(q, th, 1, 3) : th \in {0, 2, 4}, q \in Q}
        \cup {U(q, 2, ph, la) : ph \in {0, 2}, la \in {0, 5}, q \in Q}
        \cup {GateRec(k, p[1], p[2], 0, 0, 0, 0) : k \in {"CX", "CZ", "Swap"}, p \in Q2}
        \cup {CPhase(p[1], p[2], r) : r \in PhaseAngles, p \in Q2}
        \cup {FSim(p[1], p[2], th, ph) : th \in {0, 1, 2}, ph \in {0, 1}, p \in Q2}
        \cup {GateRec(k, p[1], p[2], p[3], 0, 0, 0) : k \in {"CCX", "CSwap"}, p \in Q3}

\* the gates that multi-gate kernels are built from
KernelGates ==
    {Hadamard(0), Hadamard(1), CX(0, 1), CX(1, 0), T(0), S(1), X(1), CZ(0, 1),
     RY(2, 0), RZ(2, 1), SqrtX(1), Swap(0, 1), PauliY(0), Phase(1, 0), CCX(0, 1, 2)}

Kernels(n) ==
    {<<g>> : g \in AllGateDefns(n)} \cup {<<g, h>> : g \in KernelGates, h \in KernelGates}

\* the basis indices of n qubits
Cells(n) == 0 .. Pow2(n) - 1

\* amplitude vectors over n qubits: every basis state, and two vectors with
\* a different nonzero amplitude in every cell
AmpVectors(n) ==
    LET D == 0 .. Pow2(n) - 1
    IN  {[i \in D |-> IF i = x THEN One ELSE Zero] : x \in D}
        \cup {[i \in D |-> <<i + 1, 0, i, 0, 0>>], [i \in D |-> <<1, i, 0, i + 2, 1>>]}

SparseOf(amp) ==
    LET ks == {k \in DOMAIN amp : is_nonzero(amp[k])}
    IN  [capacity |-> Cardinality(ks), cells |-> [k \in ks |-> amp[k]]]

PrevStates(n) ==
    {StateDense(amp) : amp \in AmpVectors(n)} \cup {StateSparse(SparseOf(amp)) : amp \in AmpVectors(n)}

----------------------------------------------------------------------------
(* State.  An Option is the empty sequence (None) or a one-element         *)
(* sequence (Some).                                                        *)

VARIABLES
    gates,          \* the kernel handed to the expander
    num_qubits,     \* N
    state,          \* the previous State
    push_result,    \* Option<ExpandResult> of expand_push_dense
    pull_result,    \* Option<ExpandResult> of expand_pull_dense
    decomposed,     \* Option<Vec<GateDefn>>: decompose_gate of the kernel's gate
    decomp_result,  \* Option<ExpandResult> of expand_push_dense on decomposed
    num_gates,          \* the scheduler's num_gates
    gate_touches,       \* the scheduler's gate_touches: gate index -> set of qubits
    gate_is_branching,  \* the scheduler's gate_is_branching
    frontier,           \* the scheduler's frontier: qubit -> gate index
    kernels,            \* what the pick_next_gates calls have returned so far
    sched_status,       \* "idle", "running", "done" (empty kernel returned), "panicked"
    config,             \* the Config given to expand
    prev_num_nonzeros,  \* the prev_num_nonzeros given to expand
    expander,           \* "none", or which expand ran: "parallel" or "sequential"
    exp_status,         \* "idle", "called", "sparse" (expand_sparse is running),
                        \* "push_dense", "pull_dense" (the parallel map or fold of
                        \* a dense expansion is running), "returned",
                        \* "assert_failed", "unimplemented"
    result,             \* Option<ExpandResult>: what expand returned
    table,              \* Option<SparseStateTable>: the table of expand_sparse
    blocks,             \* expand_sparse's blocks: records [b, s, ps]
    workers,            \* the closures of the running parallel map, one per block
                        \* (expand_sparse) or per task (the dense expansions)
    is_full,            \* expand_sparse's AtomicBool
    gate_calls,         \* calls made on one GateDefn: call name -> outcome
    circuit,            \* the driver's circuit: the sequence of its gates
    run_status,         \* the driver loop: "idle", "scheduling", "expanding",
                        \* "finished", "aborted"
    ends,               \* the end states of the driver's finished runs
    array,              \* mps_simulator's DenseStateTable.array; the new table of
                        \* a dense expansion run task by task
    puts,               \* the <<bidx, weight>> put into array so far; for the
                        \* fold of expand_pull_dense, cell -> the tasks that wrote it
    apply_in,           \* the arguments of the push / pull calls on one gate or matrix
    apply_out,          \* the outcomes of those calls
    gate_apps,          \* history: the push_apply calls expand_sparse has made
    reads,              \* history: source index -> the get(i) calls made on it
    observed            \* history: the closures whose is_full.load returned true
                        \* in the running pass

inputVars == <<gates, num_qubits, state>>
denseVars == <<push_result, pull_result>>
decompVars == <<decomposed, decomp_result>>

schedVars == <<num_gates, gate_touches, gate_is_branching, frontier, kernels, sched_status>>

callVars == <<config, prev_num_nonzeros>>
sparseVars == <<table, blocks, workers, is_full>>
expandVars == <<callVars, expander, exp_status, result, sparseVars>>

gateVars == <<gate_calls>>
runVars == <<circuit, run_status, ends>>
tableVars == <<array, puts>>
applyVars == <<apply_in, apply_out>>
traceVars == <<gate_apps, reads, observed>>

vars == <<inputVars, denseVars, decompVars, schedVars, expandVars, gateVars, runVars,
          tableVars, applyVars, traceVars>>

\* the outcome of each call on a single GateDefn: "none" (not called),
\* "returned" or "unimplemented"
NoCalls == [new |-> "none", branching_type |-> "none", push_apply |-> "none"]

\* no call on a single GateDefn has been made
GateIdle == gate_calls = NoCalls

\* no push or pull call on one basis index is followed
ApplyIdle ==
    /\ apply_in = <<>>
    /\ apply_out = <<>>

\* no history of an expand_sparse call
TraceIdle ==
    /\ gate_apps = 0
    /\ reads = <<>>
    /\ observed = {}

\* the driver loop is not in use
RunIdle ==
    /\ circuit = <<>>
    /\ run_status = "idle"
    /\ ends = <<>>

\* no DenseStateTable of the mps_simulator is in use
TableIdle ==
    /\ array = <<>>
    /\ puts = <<>>

\* expand has not been called
ExpandIdle ==
    /\ config = <<>>
    /\ prev_num_nonzeros = 0
    /\ expander = "none"
    /\ exp_status = "idle"
    /\ result = None
    /\ table = None
    /\ blocks = <<>>
    /\ workers = <<>>
    /\ is_full = FALSE

\* the scheduler is not in use
SchedIdle ==
    /\ num_gates = 0
    /\ gate_touches = <<>>
    /\ gate_is_branching = <<>>
    /\ frontier = <<>>
    /\ kernels = <<>>
    /\ sched_status = "idle"

\* the expander is not in use
DenseIdle ==
    /\ gates = <<>>
    /\ state = <<>>
    /\ push_result = None
    /\ pull_result = None
    /\ decomposed = None
    /\ decomp_result = None

all_gates_pullable(gs) == \A i \in 1 .. Len(gs) : is_pullable(gs[i])

----------------------------------------------------------------------------
(* Dense expansions of one kernel on one previous state.                   *)

InitDense ==
    /\ GateIdle
    /\ ApplyIdle
    /\ TraceIdle
    /\ RunIdle
    /\ TableIdle
    /\ num_qubits = DenseQubits
    /\ gates \in Kernels(DenseQubits)
    /\ state \in PrevStates(DenseQubits)
    /\ push_result = None
    /\ pull_result = None
    /\ decomposed = None
    /\ decomp_result = None
    /\ SchedIdle
    /\ ExpandIdle

ExpandPushDense ==
    /\ push_result = None
    /\ push_result' = Some(expand_push_dense(gates, num_qubits, state))
    /\ UNCHANGED <<traceVars, inputVars, applyVars, gateVars, runVars, tableVars, pull_result, decompVars, schedVars, expandVars>>

\* expand only calls expand_pull_dense when all_gates_pullable
ExpandPullDense ==
    /\ pull_result = None
    /\ all_gates_pullable(gates)
    /\ pull_result' = Some(expand_pull_dense(gates, num_qubits, state))
    /\ UNCHANGED <<traceVars, inputVars, applyVars, gateVars, runVars, tableVars, push_result, decompVars, schedVars, expandVars>>

NextDense == ExpandPushDense \/ ExpandPullDense

SpecDense == InitDense /\ [][NextDense]_vars

----------------------------------------------------------------------------
(* Decomposition of one gate, and the push of the gate and of its          *)
(* decomposition on the same previous state.                               *)

InitDecomp ==
    /\ GateIdle
    /\ ApplyIdle
    /\ TraceIdle
    /\ RunIdle
    /\ TableIdle
    /\ num_qubits = DenseQubits
    /\ gates \in {<<g>> : g \in AllGateDefns(DenseQubits)}
    /\ state \in PrevStates(DenseQubits)
    /\ push_result = None
    /\ pull_result = None
    /\ decomposed = None
    /\ decomp_result = None
    /\ SchedIdle
    /\ ExpandIdle

DecomposeGate ==
    /\ decomposed = None
    /\ decomposed' = Some(decompose_gate(gates[1]))
    /\ UNCHANGED <<traceVars, inputVars, applyVars, gateVars, runVars, tableVars, denseVars, decomp_result, schedVars, expandVars>>

ExpandDecomposed ==
    /\ decomposed # None
    /\ decomp_result = None
    /\ decomp_result' = Some(expand_push_dense(decomposed[1], num_qubits, state))
    /\ UNCHANGED <<traceVars, inputVars, applyVars, gateVars, runVars, tableVars, denseVars, decomposed, schedVars, expandVars>>

NextDecomp == DecomposeGate \/ ExpandDecomposed \/ ExpandPushDense

SpecDecomp == InitDecomp /\ [][NextDecomp]_vars

----------------------------------------------------------------------------
(* The calls made on one GateDefn, Other included: Gate::new, which calls  *)
(* create_touches and create_pull_action; branching_type; push_apply;      *)
(* decompose_gate.  A kernel is a vector of Gates, so a gate is expanded   *)
(* only once Gate::new has returned it.                                    *)

GateDefns(n) == AllGateDefns(n) \cup {Other}

InitGate ==
    /\ num_qubits = DenseQubits
    /\ gates \in {<<g>> : g \in GateDefns(DenseQubits)}
    /\ state \in {StateDense(amp) : amp \in AmpVectors(DenseQubits)}
    /\ push_result = None
    /\ pull_result = None
    /\ decomposed = None
    /\ decomp_result = None
    /\ GateIdle
    /\ ApplyIdle
    /\ TraceIdle
    /\ SchedIdle
    /\ ExpandIdle
    /\ RunIdle
    /\ TableIdle

GateNew ==
    /\ gate_calls.new = "none"
    /\ gate_calls' = [gate_calls EXCEPT !.new =
                        IF create_pull_action_unimplemented(gates[1])
                        THEN "unimplemented" ELSE "returned"]
    /\ UNCHANGED <<traceVars, inputVars, denseVars, decompVars, schedVars, expandVars, runVars, tableVars, applyVars>>

BranchingType ==
    /\ gate_calls.branching_type = "none"
    /\ gate_calls' = [gate_calls EXCEPT !.branching_type =
                        IF branching_type(gates[1]) = "unimplemented"
                        THEN "unimplemented" ELSE "returned"]
    /\ UNCHANGED <<traceVars, inputVars, denseVars, decompVars, schedVars, expandVars, runVars, tableVars, applyVars>>

PushApply ==
    /\ gate_calls.push_apply = "none"
    /\ gate_calls' = [gate_calls EXCEPT !.push_apply =
                        IF push_apply_unimplemented(gates[1])
                        THEN "unimplemented" ELSE "returned"]
    /\ UNCHANGED <<traceVars, inputVars, denseVars, decompVars, schedVars, expandVars, runVars, tableVars, applyVars>>

\* the expansion of the kernel that holds the gate Gate::new has returned
ExpandGate ==
    /\ gate_calls.new = "returned"
    /\ ExpandPushDense

NextGate == GateNew \/ BranchingType \/ PushApply \/ DecomposeGate \/ ExpandGate

SpecGate == InitGate /\ [][NextGate]_vars

----------------------------------------------------------------------------
(* push_apply and the pull action of one gate on one basis index.  The     *)
(* pull action is a field of the Gate, so it is called only once Gate::new *)
(* has returned, and only when it is Some.                                 *)

ApplyWeights == {One, ImagI, <<1, 2, 0, 3, 1>>}

\* no call made yet
NoOutcome == [push |-> "none", push_out |-> <<>>, pull |-> "none", pull_out |-> <<>>]

InitApply ==
    /\ num_qubits = DenseQubits
    /\ gates \in {<<g>> : g \in GateDefns(DenseQubits)}
    /\ state = <<>>
    /\ push_result = None
    /\ pull_result = None
    /\ decomposed = None
    /\ decomp_result = None
    /\ GateIdle
    /\ SchedIdle
    /\ ExpandIdle
    /\ RunIdle
    /\ TableIdle
    /\ TraceIdle
    /\ apply_in \in [bidx : Cells(DenseQubits), weight : ApplyWeights]
    /\ apply_out = NoOutcome

PushApplyCall ==
    /\ apply_out.push = "none"
    /\ apply_out' =
         IF push_apply_unimplemented(gates[1])
         THEN [apply_out EXCEPT !.push = "unimplemented"]
         ELSE IF ~push_apply_asserts(gates[1])
         THEN [apply_out EXCEPT !.push = "assert_failed"]
         ELSE [apply_out EXCEPT !.push = "returned",
                                !.push_out = push_apply(gates[1], apply_in.bidx,
                                                        apply_in.weight)]
    /\ UNCHANGED <<traceVars, inputVars, denseVars, decompVars, schedVars, expandVars, gateVars,
                   runVars, tableVars, apply_in>>

PullActionCall ==
    /\ apply_out.pull = "none"
    /\ gate_calls.new = "returned"
    /\ is_pullable(gates[1])
    /\ apply_out' = [apply_out EXCEPT !.pull = "returned",
                                      !.pull_out = pull_action(gates[1], apply_in.bidx)]
    /\ UNCHANGED <<traceVars, inputVars, denseVars, decompVars, schedVars, expandVars, gateVars,
                   runVars, tableVars, apply_in>>

NextApply == GateNew \/ BranchingType \/ PushApplyCall \/ PullActionCall

SpecApply == InitApply /\ [][NextApply]_vars

----------------------------------------------------------------------------
(* single_qubit_unitary_push and single_qubit_unitary_pull on one 2x2      *)
(* matrix (a, b; c, d), unitary or not, and one basis index.               *)

MatrixEntries == {Zero, One, ImagI, RECP_SQRT_2}

InitUnitary ==
    /\ DenseIdle
    /\ GateIdle
    /\ SchedIdle
    /\ ExpandIdle
    /\ RunIdle
    /\ TableIdle
    /\ TraceIdle
    /\ num_qubits = UnitaryQubits
    /\ apply_in \in [bidx : Cells(UnitaryQubits), weight : {One, <<1, 2, 0, 3, 1>>},
                     target : 0 .. UnitaryQubits - 1,
                     a : MatrixEntries, b : MatrixEntries,
                     c : MatrixEntries, d : MatrixEntries]
    /\ apply_out = NoOutcome

UnitaryPush ==
    /\ apply_out.push = "none"
    /\ apply_out' =
         IF ~single_qubit_unitary_push_asserts(apply_in.a, apply_in.b, apply_in.c, apply_in.d)
         THEN [apply_out EXCEPT !.push = "assert_failed"]
         ELSE [apply_out EXCEPT
                 !.push = "returned",
                 !.push_out = single_qubit_unitary_push(apply_in.bidx, apply_in.weight,
                                  apply_in.target, apply_in.a, apply_in.b,
                                  apply_in.c, apply_in.d)]
    /\ UNCHANGED <<traceVars, inputVars, denseVars, decompVars, schedVars, expandVars, gateVars,
                   runVars, tableVars, apply_in>>

UnitaryPull ==
    /\ apply_out.pull = "none"
    /\ apply_out' =
         IF ~single_qubit_unitary_pull_asserts(apply_in.a, apply_in.b, apply_in.c, apply_in.d)
         THEN [apply_out EXCEPT !.pull = "assert_failed"]
         ELSE [apply_out EXCEPT
                 !.pull = "returned",
                 !.pull_out = single_qubit_unitary_pull(apply_in.bidx, apply_in.target,
                                  apply_in.a, apply_in.b, apply_in.c, apply_in.d)]
    /\ UNCHANGED <<traceVars, inputVars, denseVars, decompVars, schedVars, expandVars, gateVars,
                   runVars, tableVars, apply_in>>

NextUnitary == UnitaryPush \/ UnitaryPull

SpecUnitary == InitUnitary /\ [][NextUnitary]_vars

----------------------------------------------------------------------------
(* mps_simulator's DenseStateTable: new(num_qubits), then puts.  A put     *)
(* under the key 2^num_qubits indexes the array out of bounds: it aborts,  *)
(* the array is as it was and no put follows.                              *)

PutWeights == {One, ImagI, CNeg(One)}

InitTable ==
    /\ DenseIdle
    /\ GateIdle
    /\ ApplyIdle
    /\ TraceIdle
    /\ SchedIdle
    /\ ExpandIdle
    /\ RunIdle
    /\ num_qubits = TableQubits
    /\ array = MpsDenseStateTable_new(TableQubits)
    /\ puts = <<>>

Put ==
    /\ Len(puts) < MaxPuts
    /\ \A k \in 1 .. Len(puts) : puts[k][1] \in DOMAIN array
    /\ \E bidx \in 0 .. Pow2(num_qubits), weight \in PutWeights :
         /\ array' = IF bidx \in DOMAIN array THEN put(array, bidx, weight) ELSE array
         /\ puts' = Append(puts, <<bidx, weight>>)
    /\ UNCHANGED <<traceVars, inputVars, denseVars, decompVars, schedVars, expandVars, applyVars, gateVars, runVars>>

NextTable == Put

SpecTable == InitTable /\ [][NextTable]_vars

----------------------------------------------------------------------------
(* The GreedyNonbranching scheduler on one circuit.  create_gate_scheduler *)
(* is handed the touched qubits and the branching flag of every gate; the  *)
(* circuits drawn here include gates that touch nothing and gates that     *)
(* touch the qubit num_qubits, which is out of range.                      *)

TouchSets(n) == {qs \in SUBSET (0 .. n) : Cardinality(qs) <= 3}

Circuits(n) ==
    UNION {[0 .. g - 1 -> TouchSets(n)] \X [0 .. g - 1 -> BOOLEAN] : g \in 1 .. MaxGates}

RECURSIVE Reverse(_)
Reverse(sq) == IF sq = <<>> THEN <<>> ELSE Append(Reverse(Tail(sq)), Head(sq))

\* the order in which a HashSet of qubits is iterated is not fixed
HashOrders == {"ascending", "descending"}
IterOrder(qs, order) == IF order = "ascending" THEN SortedSeq(qs) ELSE Reverse(SortedSeq(qs))

InitSched ==
    /\ GateIdle
    /\ ApplyIdle
    /\ TraceIdle
    /\ RunIdle
    /\ TableIdle
    /\ DenseIdle
    /\ ExpandIdle
    /\ num_qubits = SchedQubits
    /\ \E c \in Circuits(SchedQubits) :
         /\ num_gates = Cardinality(DOMAIN c[1])
         /\ gate_touches = c[1]
         /\ gate_is_branching = c[2]
         /\ frontier = new_frontier(Cardinality(DOMAIN c[1]), SchedQubits,
                                    [gi \in DOMAIN c[1] |-> SortedSeq(c[1][gi])])
    /\ kernels = <<>>
    /\ sched_status = "running"

\* what the driver does with the outcome r of one pick_next_gates call
PickNextGates_with(r) ==
    IF r.panic
    THEN /\ sched_status' = "panicked"
         /\ UNCHANGED <<frontier, kernels>>
    ELSE /\ frontier' = r.frontier
         /\ kernels' = Append(kernels, [next_gates |-> r.next_gates, runs |-> r.runs])
         /\ sched_status' = IF r.next_gates = <<>> THEN "done" ELSE "running"

PickNextGates ==
    /\ sched_status = "running"
    /\ \E order \in HashOrders :
         PickNextGates_with(
             pick_next_gates(num_gates, num_qubits,
                             [gi \in DOMAIN gate_touches |-> IterOrder(gate_touches[gi], order)],
                             gate_is_branching, frontier))
    /\ UNCHANGED <<traceVars, inputVars, applyVars, gateVars, runVars, tableVars, denseVars, decompVars, expandVars, num_gates, gate_touches, gate_is_branching>>

NextSched == PickNextGates

SpecSched == InitSched /\ [][NextSched]_vars

\* every gate touches at least one qubit, and only qubits in [0, N)
WellFormed ==
    \A gi \in DOMAIN gate_touches :
        gate_touches[gi] # {} /\ gate_touches[gi] \subseteq 0 .. num_qubits - 1

\* the circuits a driver schedules: their gates come from Gate::new
InitSchedFair == InitSched /\ WellFormed

\* The driver calls pick_next_gates until it returns the empty kernel:
\* WF_vars(PickNextGates), written out.  PickNextGates is enabled exactly
\* when sched_status = "running", and each of its steps changes kernels or
\* sched_status, so every step that changes vars is one of its steps.
FairSched == []<>(sched_status # "running") \/ []<><<PickNextGates>>_vars

SpecSchedFair == InitSchedFair /\ [][NextSched]_vars /\ FairSched

----------------------------------------------------------------------------
(* Properties of the gate algebra and the dense expansions.                *)

RECURSIVE CSumSeq(_)
CSumSeq(ws) == IF ws = <<>> THEN Zero ELSE CAdd(ws[1], CSumSeq(Tail(ws)))

\* the weight that push_apply(defn, x, w) sends to basis y
Landing(out, y) ==
    CSumSeq([i \in 1 .. Len(out) |-> IF out[i][1] = y THEN out[i][2] ELSE Zero])

PushLanding(defn, x, w, y) == Landing(push_apply(defn, x, w), y)

\* sum over the input bases x of the push contributions of amp[x] landing on y
PushSum(defn, st, n, y) ==
    CSumSeq([i \in 1 .. Pow2(n) |-> PushLanding(defn, i - 1, State_get(st, i - 1), y)])

\* sum over the pairs (neighbor, multiplier) of the pull action on y
Pulled(out, st) ==
    CSumSeq([i \in 1 .. Len(out) |-> CMul(out[i][2], State_get(st, out[i][1]))])

PullSum(defn, st, y) == Pulled(pull_action(defn, y), st)

\* C2: for every kernel whose gates all have a pull action and every
\* previous state, expand_pull_dense and expand_push_dense leave the same
\* amplitude in every cell of the new dense table.
C2_PullEqualsPushKernel ==
    (all_gates_pullable(gates) /\ push_result # None /\ pull_result # None)
        => \A y \in Cells(num_qubits) :
               pull_result[1].state.table[y] = push_result[1].state.table[y]

\* C3: for a single gate with a pull action, every output basis y and every
\* amplitude vector, the push contributions landing on y sum to the same
\* value as multiplier * amp[neighbor] summed over the pull action's pairs.
C3_PushPullDuality ==
    (Len(gates) = 1 /\ is_pullable(gates[1]))
        => \A y \in Cells(num_qubits) :
               PushSum(gates[1], state, num_qubits, y) = PullSum(gates[1], state, y)

\* a derived, phase-carrying permutation gate has been pulled on a state
\* whose cells all differ
C3_Witness ==
    /\ Len(gates) = 1
    /\ gates[1].kind = "PauliY"
    /\ is_pullable(gates[1])
    /\ pull_result # None
    /\ \A y \in Cells(num_qubits) : is_nonzero(PullSum(gates[1], state, y))

\* C9: applying CCX natively by push and applying the sequence returned by
\* decompose_gate yield the same amplitude at every basis index.
C9_DecomposeCCXEquivalent ==
    (gates[1].kind = "CCX" /\ push_result # None /\ decomp_result # None)
        => \A y \in Cells(num_qubits) :
               decomp_result[1].state.table[y] = push_result[1].state.table[y]

\* C10: decompose_cswap on CSwap{c, t1, t2} returns exactly
\* CX(t1,t2); CCX(c,t2,t1); CX(t1,t2).
C10_DecomposeCSwapThreeGates ==
    (gates[1].kind = "CSwap" /\ decomposed # None)
        => decomposed[1] = <<CX(gates[1].q2, gates[1].q3),
                             CCX(gates[1].q1, gates[1].q3, gates[1].q2),
                             CX(gates[1].q2, gates[1].q3)>>

\* C10 as amended: the middle CCX(c,t2,t1) is itself replaced by its eleven
\* gate decomposition, so thirteen gates of one or two qubits are returned.
C10_DecomposeCSwapThirteenGates ==
    (gates[1].kind = "CSwap" /\ decomposed # None)
        => LET c == gates[1].q1
               t1 == gates[1].q2
               t2 == gates[1].q3
           IN  decomposed[1] =
                 <<CX(t1, t2),
                   Hadamard(t1), CX(t2, t1), Tdg(t1), CX(c, t1), T(t1), CX(t2, t1),
                   Tdg(t1), CX(c, t1), T(t2), T(t1), Hadamard(t1),
                   CX(t1, t2)>>

C10_Witness ==
    /\ gates[1].kind = "CSwap"
    /\ decomposed # None
    /\ Len(decomposed[1]) = 13

----------------------------------------------------------------------------
(* One call of expand, of the parallel or of the sequential expander.      *)

\* the method the parallel expand dispatches to, with expected_density >
\* config.pull_threshold as the test for dense pull
choose_method_pull_strict(expected, nq, cfg, pullable) ==
    IF DensityBelow(expected, nq, cfg.dense_threshold) THEN "Sparse"
    ELSE IF expected * cfg.pull_threshold[2] > cfg.pull_threshold[1] * Pow2(nq) /\ pullable
    THEN "PullDense"
    ELSE "PushDense"

\* the method the parallel expand dispatches to
choose_method(expected, nq, cfg, pullable) ==
    IF DensityBelow(expected, nq, cfg.dense_threshold) THEN "Sparse"
    ELSE IF ~DensityBelow(expected, nq, cfg.pull_threshold) /\ pullable THEN "PullDense"
    ELSE "PushDense"

\* the assertion of the parallel expand, left out
config_assert_none(cfg) == TRUE

\* assert!(config.dense_threshold <= config.pull_threshold)
config_assert(cfg) ==
    cfg.dense_threshold[1] * cfg.pull_threshold[2]
        <= cfg.pull_threshold[1] * cfg.dense_threshold[2]

\* expand_sparse up to its while loop
StartSparse(tbl, blks) ==
    /\ table' = Some(tbl)
    /\ blocks' = blks
    /\ workers' = spawn(blks)
    /\ is_full' = FALSE
    /\ exp_status' = "sparse"
    /\ UNCHANGED result

ReturnDense(r) ==
    /\ result' = Some(r)
    /\ exp_status' = "returned"
    /\ UNCHANGED sparseVars

ExpandParallel_with(expected, method) ==
    IF ~config_assert(config)
    THEN /\ exp_status' = "assert_failed"
         /\ UNCHANGED <<result, sparseVars>>
    ELSE IF method = "Sparse"
    THEN StartSparse(SparseStateTable_new(num_qubits, config.maxload, expected),
                     initial_blocks(sparse_n(state), config))
    ELSE IF method = "PullDense"
    THEN ReturnDense(expand_pull_dense(gates, num_qubits, state))
    ELSE ReturnDense(expand_push_dense(gates, num_qubits, state))

ExpandParallel_of(expected) ==
    ExpandParallel_with(expected,
        choose_method(expected, num_qubits, config, all_gates_pullable(gates)))

\* parallel_simulator::state_expander::expand
ExpandParallel ==
    /\ exp_status = "called"
    /\ expander' = "parallel"
    /\ ExpandParallel_of(expected_cost(num_qubits, State_num_nonzeros(state), prev_num_nonzeros))
    /\ gate_apps' = 0
    /\ reads' = <<>>
    /\ observed' = {}
    /\ UNCHANGED <<inputVars, applyVars, gateVars, runVars, tableVars, denseVars, decompVars, schedVars, callVars>>

\* history: closure k has loaded is_full
Observe(k) == observed' = IF is_full THEN observed \cup {k} ELSE observed

\* history: get(i) has been called
ReadSource(i) ==
    reads' = [j \in DOMAIN reads \cup {i} |->
                 (IF j \in DOMAIN reads THEN reads[j] ELSE 0) + (IF j = i THEN 1 ELSE 0)]

\* WorkerUpdate: closure k becomes w
WorkerUpdate(k, w) == workers' = [workers EXCEPT ![k] = w]

Stop(k) == block_stop(workers[k].b, sparse_n(state), config)

\* step (1) of the closure: the is_full test and ps2.pop() of its loop
Step1(k) ==
    /\ exp_status = "sparse"
    /\ k \in DOMAIN workers
    /\ workers[k].pc = "step1"
    /\ WorkerUpdate(k,
         IF is_full THEN [workers[k] EXCEPT !.pc = "done"]
         ELSE IF workers[k].ps2 = <<>> THEN [workers[k] EXCEPT !.pc = "step2", !.step = 2]
         ELSE [workers[k] EXCEPT !.ps2 = SubSeq(@, 1, Len(@) - 1), !.step = 1,
                                 !.stack = << workers[k].ps2[Len(workers[k].ps2)] >>,
                                 !.pc = "apply"])
    /\ Observe(k)
    /\ UNCHANGED <<gate_apps, reads>>
    /\ UNCHANGED <<inputVars, applyVars, gateVars, runVars, tableVars, denseVars, decompVars, schedVars, callVars, expander,
                   exp_status, result, table, blocks, is_full>>

\* step (2) of the closure: one turn of for i in *s..block_stop(*b), up to
\* the is_zero test of apply_gates1
Step2(k) ==
    /\ exp_status = "sparse"
    /\ k \in DOMAIN workers
    /\ workers[k].pc = "step2"
    /\ WorkerUpdate(k,
         IF workers[k].i >= Stop(k) THEN [workers[k] EXCEPT !.pc = "done"]
         ELSE IF is_full THEN [workers[k] EXCEPT !.pc = "done", !.s2 = workers[k].i]
         ELSE IF is_zero(sparse_get(state, workers[k].i)[2])
         THEN all_succeeded(workers[k], Stop(k))
         ELSE [workers[k] EXCEPT !.pc = "apply",
                                 !.stack = << <<sparse_get(state, workers[k].i)[1],
                                                sparse_get(state, workers[k].i)[2], 0>> >>])
    /\ IF workers[k].i >= Stop(k) THEN UNCHANGED <<reads, observed>>
       ELSE /\ Observe(k)
            /\ IF is_full THEN UNCHANGED reads ELSE ReadSource(workers[k].i)
    /\ UNCHANGED gate_apps
    /\ UNCHANGED <<inputVars, applyVars, gateVars, runVars, tableVars, denseVars, decompVars, schedVars, callVars, expander,
                   exp_status, result, table, blocks, is_full>>

\* apply_gates1 on the path at the head of the stack: it returns at once on
\* a zero weight, goes on to try_put at the end of the kernel, and calls
\* itself on what push_apply returns otherwise
Apply(k) ==
    /\ exp_status = "sparse"
    /\ k \in DOMAIN workers
    /\ workers[k].pc = "apply"
    /\ WorkerUpdate(k,
         IF is_zero(workers[k].stack[1][2])
         THEN continue_with(workers[k], Tail(workers[k].stack), Stop(k))
         ELSE IF workers[k].stack[1][3] >= Len(gates)
         THEN [workers[k] EXCEPT !.pc = "load1"]
         ELSE [workers[k] EXCEPT !.stack =
                  successors(push_apply(gates[workers[k].stack[1][3] + 1],
                                        workers[k].stack[1][1], workers[k].stack[1][2]),
                             workers[k].stack[1][3])
                  \o Tail(workers[k].stack)])
    /\ gate_apps' = IF is_zero(workers[k].stack[1][2]) \/ workers[k].stack[1][3] >= Len(gates)
                    THEN gate_apps ELSE gate_apps + 1
    /\ UNCHANGED <<reads, observed>>
    /\ UNCHANGED <<inputVars, applyVars, gateVars, runVars, tableVars, denseVars, decompVars, schedVars, callVars, expander,
                   exp_status, result, table, blocks, is_full>>

\* apply_gates1 at the end of the kernel going on to try_put whatever its
\* first is_full.load returns
Load1_unchecked(k) ==
    /\ exp_status = "sparse"
    /\ k \in DOMAIN workers
    /\ workers[k].pc = "load1"
    /\ WorkerUpdate(k, [workers[k] EXCEPT !.pc = "try_put"])
    /\ Observe(k)
    /\ UNCHANGED <<gate_apps, reads>>
    /\ UNCHANGED <<inputVars, applyVars, gateVars, runVars, tableVars, denseVars, decompVars, schedVars, callVars, expander,
                   exp_status, result, table, blocks, is_full>>

\* apply_gates1 at the end of the kernel: the first is_full.load
Load1(k) ==
    /\ exp_status = "sparse"
    /\ k \in DOMAIN workers
    /\ workers[k].pc = "load1"
    /\ WorkerUpdate(k, [workers[k] EXCEPT !.pc = IF is_full THEN "load2" ELSE "try_put"])
    /\ Observe(k)
    /\ UNCHANGED <<gate_apps, reads>>
    /\ UNCHANGED <<inputVars, applyVars, gateVars, runVars, tableVars, denseVars, decompVars, schedVars, callVars, expander,
                   exp_status, result, table, blocks, is_full>>

\* table.try_put(bidx, weight, maxload)
TryPut(k) ==
    /\ exp_status = "sparse"
    /\ k \in DOMAIN workers
    /\ workers[k].pc = "try_put"
    /\ \E ok \in try_put_outcomes(table[1], workers[k].stack[1][1], config.maxload) :
         IF ok
         THEN /\ table' = Some(try_put(table[1], workers[k].stack[1][1], workers[k].stack[1][2]))
              /\ WorkerUpdate(k, continue_with(workers[k], Tail(workers[k].stack), Stop(k)))
         ELSE /\ WorkerUpdate(k, [workers[k] EXCEPT !.pc = "load2"])
              /\ UNCHANGED table
    /\ UNCHANGED <<traceVars, inputVars, applyVars, gateVars, runVars, tableVars, denseVars, decompVars, schedVars, callVars, expander,
                   exp_status, result, blocks, is_full>>

\* the second is_full.load
Load2(k) ==
    /\ exp_status = "sparse"
    /\ k \in DOMAIN workers
    /\ workers[k].pc = "load2"
    /\ WorkerUpdate(k, IF is_full THEN some_failed(workers[k])
                       ELSE [workers[k] EXCEPT !.pc = "store"])
    /\ Observe(k)
    /\ UNCHANGED <<gate_apps, reads>>
    /\ UNCHANGED <<inputVars, applyVars, gateVars, runVars, tableVars, denseVars, decompVars, schedVars, callVars, expander,
                   exp_status, result, table, blocks, is_full>>

\* is_full.store(true), and the return of SomeFailed
Store(k) ==
    /\ exp_status = "sparse"
    /\ k \in DOMAIN workers
    /\ workers[k].pc = "store"
    /\ is_full' = TRUE
    /\ WorkerUpdate(k, some_failed(workers[k]))
    /\ UNCHANGED <<traceVars, inputVars, applyVars, gateVars, runVars, tableVars, denseVars, decompVars, schedVars, callVars, expander,
                   exp_status, result, table, blocks>>

\* the end of a parallel pass with the blocks blks left: either the table is
\* grown and the next pass starts, or expand_sparse returns
EndPass_with(blks) ==
    IF blks # <<>>
    THEN /\ table[1].capacity < MaxCapacity
         /\ StartSparse(increase_capacity_by_factor(table[1]), blks)
    ELSE /\ result' = Some([state |-> StateSparse(table[1]),
                            num_nonzeros |-> Sparse_num_nonzeros(table[1]),
                            num_gate_apps |-> 0,
                            method |-> "Sparse"])
         /\ exp_status' = "returned"
         /\ blocks' = blks
         /\ UNCHANGED <<table, workers, is_full>>

EndPass ==
    /\ exp_status = "sparse"
    /\ \A k \in DOMAIN workers : workers[k].pc = "done"
    /\ EndPass_with(collect_blocks(workers, 1, sparse_n(state), config))
    /\ observed' = IF collect_blocks(workers, 1, sparse_n(state), config) # <<>> THEN {} ELSE observed
    /\ UNCHANGED <<gate_apps, reads, inputVars, applyVars, gateVars, runVars, tableVars, denseVars, decompVars, schedVars, callVars, expander>>

\* the sequential expand_sparse: its table takes every put
seq_expand_sparse_of(r) ==
    [state |-> StateSparse([cells |-> [k \in {j \in DOMAIN r.table : is_nonzero(r.table[j])}
                                          |-> r.table[k]]]),
     num_nonzero |-> Dense_num_nonzeros(r.table),
     num_gate_apps |-> r.apps]

\* state.compactify(): the nonzero entries of the state
compactify_of(st, ks) == [i \in 1 .. Len(ks) |-> <<ks[i], State_get(st, ks[i])>>]

compactify(st, nq) ==
    compactify_of(st, SortedSeq({x \in 0 .. Pow2(nq) - 1 : is_nonzero(State_get(st, x))}))

seq_expand_sparse(gs, nq, st) ==
    seq_expand_sparse_of(PushDenseFold(gs, compactify(st, nq), DenseStateTable_new(nq), 0))

\* the sequential expand: expected_cost >= config.dense_threshold
seq_dense(nq, nonzeros, prev_nonzeros, cfg) ==
    ~DensityBelow(expected_cost(nq, nonzeros, prev_nonzeros), nq, cfg.dense_threshold)
        \/ ~DensityBelow(nonzeros, nq, cfg.dense_threshold)

\* simulator::state_expander::expand; expand_dense is unimplemented!()
ExpandSequential ==
    /\ exp_status = "called"
    /\ expander' = "sequential"
    /\ IF seq_dense(num_qubits, State_num_nonzeros(state), prev_num_nonzeros, config)
       THEN /\ exp_status' = "unimplemented"
            /\ UNCHANGED result
       ELSE /\ exp_status' = "returned"
            /\ result' = Some(seq_expand_sparse(gates, num_qubits, state))
    /\ UNCHANGED <<traceVars, inputVars, applyVars, gateVars, runVars, tableVars, denseVars, decompVars, schedVars, callVars, sparseVars>>

Thresholds == {<<0, 1>>, <<1, 4>>, <<1, 2>>, <<4, 5>>, <<1, 1>>}

Configs(maxloads) ==
    {[dense_threshold |-> d, pull_threshold |-> p, maxload |-> ml, block_size |-> 10000] :
        d \in Thresholds, p \in Thresholds, ml \in maxloads}

ExpandKernels ==
    {<<Hadamard(0)>>, <<X(0)>>, <<Hadamard(0), Hadamard(1)>>, <<Hadamard(0), CX(0, 1)>>,
     <<CX(0, 1), Hadamard(1)>>, <<FSim(0, 1, 2, 2)>>}

\* the states of PrevStates(n), and a dense and a sparse state of two nonzeros
ExpandStates(n) ==
    PrevStates(n)
    \cup {StateDense([i \in 0 .. Pow2(n) - 1 |-> IF i < 2 THEN RECP_SQRT_2 ELSE Zero])}
    \cup {StateSparse([capacity |-> 2, cells |-> [k \in {0, 3} |-> RECP_SQRT_2]])}

\* dense states of BlockQubits qubits with two nonzeros, at the end of the
\* first block and of the last, or both at the end of the first
BlockStates ==
    {StateDense([i \in 0 .. Pow2(BlockQubits) - 1 |->
                    IF i = x[1] THEN One ELSE IF i = x[2] THEN ImagI ELSE Zero]) :
        x \in {<<99, Pow2(BlockQubits) - 1>>, <<98, 99>>}}

\* calls on states of ExpandQubits qubits
SmallCalls(ks, configs) ==
    {[nq |-> ExpandQubits, gates |-> gs, state |-> st, prev |-> pv, config |-> cfg] :
        gs \in ks, st \in ExpandStates(ExpandQubits), pv \in 0 .. 2, cfg \in configs}

\* calls with the default thresholds on states that are split into blocks
BlockCalls(ks) ==
    {[nq |-> BlockQubits, gates |-> gs, state |-> st, prev |-> 2,
      config |-> [dense_threshold |-> <<1, 4>>, pull_threshold |-> <<4, 5>>,
                  maxload |-> <<1, 1>>, block_size |-> 10000]] :
        gs \in ks, st \in BlockStates}

ExpandInputs ==
    SmallCalls(ExpandKernels, Configs({<<1, 1>>, <<1, 2>>}))
    \cup BlockCalls({<<Hadamard(0)>>, <<Hadamard(0), Hadamard(1)>>})

\* calls that go to expand_sparse unless the state is full
SparseInputs ==
    SmallCalls(ExpandKernels \ {<<FSim(0, 1, 2, 2)>>},
               {c \in Configs({<<1, 1>>, <<1, 2>>}) :
                    c.dense_threshold = <<1, 1>> /\ c.pull_threshold = <<1, 1>>})
    \cup BlockCalls({<<Hadamard(0)>>})

InitCall(inputs) ==
    /\ GateIdle
    /\ ApplyIdle
    /\ TraceIdle
    /\ RunIdle
    /\ TableIdle
    /\ SchedIdle
    /\ push_result = None
    /\ pull_result = None
    /\ decomposed = None
    /\ decomp_result = None
    /\ \E in \in inputs :
         /\ num_qubits = in.nq
         /\ gates = in.gates
         /\ state = in.state
         /\ prev_num_nonzeros = in.prev
         /\ config = in.config
    /\ expander = "none"
    /\ exp_status = "called"
    /\ result = None
    /\ table = None
    /\ blocks = <<>>
    /\ workers = <<>>
    /\ is_full = FALSE

InitExpand == InitCall(ExpandInputs)

InitSparse == InitCall(SparseInputs)

\* the most blocks a state of ExpandInputs is split into
MaxBlocks == (Pow2(BlockQubits) + 99) \div 100

Worker(k) == Step1(k) \/ Step2(k) \/ Apply(k) \/ Load1(k) \/ TryPut(k) \/ Load2(k) \/ Store(k)

NextExpand ==
    \/ ExpandParallel
    \/ ExpandSequential
    \/ EndPass
    \/ \E k \in 1 .. MaxBlocks : Worker(k)

SpecExpand == InitExpand /\ [][NextExpand]_vars

\* every closure of the parallel map runs on, and the main thread goes on
\* when the map is over
FairExpand ==
    /\ WF_vars(EndPass)
    /\ \A k \in 1 .. MaxBlocks : WF_vars(Worker(k))

SpecExpandFair == InitSparse /\ [][NextExpand]_vars /\ FairExpand

----------------------------------------------------------------------------
(* expand_push_dense and expand_pull_dense, task by task.  The parallel    *)
(* map of expand_push_dense runs its closure once per source entry, and    *)
(* the parallel fold of expand_pull_dense hands every worker a contiguous  *)
(* piece of 0 .. capacity; the closures share the new table, and their     *)
(* atomic_puts interleave in any order.  workers holds the tasks, array    *)
(* the new table, and puts, for each cell, the tasks of the fold that      *)
(* wrote it.                                                               *)

\* the closure of the parallel map on one source entry: the atomic_puts it
\* is still to make, those it has made, and the count it returns
push_task(r) == [todo |-> r.puts, made |-> <<>>, apps |-> r.apps]

push_tasks(gs, sources) ==
    [k \in 1 .. Len(sources) |-> push_task(apply_gates(gs, sources[k][1], sources[k][2]))]

\* the range of the fold with its last index left out
pull_range_short(nq) == Pow2(nq) - 1

\* capacity = 1 << num_qubits, the end of the range 0..capacity
pull_range(nq) == Pow2(nq)

\* the pieces of 0 .. capacity that start at the indices bs
pull_tasks(capacity, bs) ==
    [k \in 1 .. Len(bs) |->
        [lo |-> bs[k], hi |-> IF k < Len(bs) THEN bs[k + 1] ELSE capacity,
         idx |-> bs[k], apps |-> 0, nonzeros |-> 0]]

DenseUnchanged ==
    UNCHANGED <<traceVars, inputVars, applyVars, gateVars, runVars, denseVars, decompVars,
                schedVars, callVars, expander, table, blocks, is_full>>

\* expand_push_dense up to its parallel map
PushDenseSpawn ==
    /\ exp_status = "idle"
    /\ exp_status' = "push_dense"
    /\ array' = DenseStateTable_new(num_qubits)
    /\ workers' = push_tasks(gates, PushDenseSources(state))
    /\ UNCHANGED <<result, puts>>
    /\ DenseUnchanged

\* apply_gates at the end of the kernel: table.atomic_put(bidx, weight)
PushDensePut(k) ==
    /\ exp_status = "push_dense"
    /\ k \in DOMAIN workers
    /\ workers[k].todo # <<>>
    /\ array' = atomic_put(array, workers[k].todo[1][1], workers[k].todo[1][2])
    /\ workers' = [workers EXCEPT ![k].todo = Tail(@),
                                  ![k].made = Append(@, workers[k].todo[1])]
    /\ UNCHANGED <<exp_status, result, puts>>
    /\ DenseUnchanged

RECURSIVE SumApps(_, _)
SumApps(ws, n) == IF n = 0 THEN 0 ELSE ws[n].apps + SumApps(ws, n - 1)

RECURSIVE SumNonzeros(_, _)
SumNonzeros(ws, n) == IF n = 0 THEN 0 ELSE ws[n].nonzeros + SumNonzeros(ws, n - 1)

\* the map is over: .sum(), table.num_nonzeros() and the ExpandResult
PushDenseReturn ==
    /\ exp_status = "push_dense"
    /\ \A k \in DOMAIN workers : workers[k].todo = <<>>
    /\ exp_status' = "returned"
    /\ result' = Some([state |-> StateDense(array),
                       num_nonzeros |-> Dense_num_nonzeros(array),
                       num_gate_apps |-> SumApps(workers, Len(workers)),
                       method |-> "PushDense"])
    /\ UNCHANGED <<workers, array, puts>>
    /\ DenseUnchanged

\* expand_pull_dense up to its parallel fold, which expand calls only when
\* all_gates_pullable; the range is split at any indices
PullDenseSpawn ==
    /\ exp_status = "idle"
    /\ all_gates_pullable(gates)
    /\ exp_status' = "pull_dense"
    /\ array' = DenseStateTable_new(num_qubits)
    /\ puts' = [i \in 0 .. Pow2(num_qubits) - 1 |-> <<>>]
    /\ \E cuts \in SUBSET (1 .. pull_range(num_qubits) - 1) :
         workers' = pull_tasks(pull_range(num_qubits), SortedSeq({0} \cup cuts))
    /\ UNCHANGED result
    /\ DenseUnchanged

\* one turn of the fold: r is apply_pull_gates on the index of task k
PullDensePut_with(k, r) ==
    /\ array' = atomic_put(array, workers[k].idx, r[1])
    /\ puts' = [puts EXCEPT ![workers[k].idx] = Append(@, k)]
    /\ workers' = [workers EXCEPT ![k].idx = @ + 1,
                                  ![k].apps = @ + r[2],
                                  ![k].nonzeros = @ + (IF is_nonzero(r[1]) THEN 1 ELSE 0)]

PullDensePut(k) ==
    /\ exp_status = "pull_dense"
    /\ k \in DOMAIN workers
    /\ workers[k].idx < workers[k].hi
    /\ PullDensePut_with(k, apply_pull_gates(gates, state, workers[k].idx))
    /\ UNCHANGED <<exp_status, result>>
    /\ DenseUnchanged

\* the fold is over: .reduce() and the ExpandResult
PullDenseReturn ==
    /\ exp_status = "pull_dense"
    /\ \A k \in DOMAIN workers : workers[k].idx = workers[k].hi
    /\ exp_status' = "returned"
    /\ result' = Some([state |-> StateDense(array),
                       num_nonzeros |-> SumNonzeros(workers, Len(workers)),
                       num_gate_apps |-> SumApps(workers, Len(workers)),
                       method |-> "PullDense"])
    /\ UNCHANGED <<workers, array, puts>>
    /\ DenseUnchanged

InitDensePar ==
    /\ GateIdle
    /\ ApplyIdle
    /\ TraceIdle
    /\ RunIdle
    /\ TableIdle
    /\ SchedIdle
    /\ ExpandIdle
    /\ push_result = None
    /\ pull_result = None
    /\ decomposed = None
    /\ decomp_result = None
    /\ num_qubits = ExpandQubits
    /\ gates \in ExpandKernels
    /\ state \in ExpandStates(ExpandQubits)

\* the most tasks a state of ExpandQubits qubits is split into
MaxTasks == Pow2(ExpandQubits)

NextDensePar ==
    \/ PushDenseSpawn
    \/ \E k \in 1 .. MaxTasks : PushDensePut(k)
    \/ PushDenseReturn
    \/ PullDenseSpawn
    \/ \E k \in 1 .. MaxTasks : PullDensePut(k)
    \/ PullDenseReturn

SpecDensePar == InitDensePar /\ [][NextDensePar]_vars

----------------------------------------------------------------------------
(* The driver loop (sections 2 and 3 of the design): the state starts as   *)
(* Sparse({zeros() -> 1}); each kernel picked by the GreedyNonbranching     *)
(* scheduler is expanded by the parallel expand, and the next kernel is    *)
(* picked once the new state is there; the loop ends at the empty kernel.  *)
(* A run with dense_threshold = 0 is followed by a run of the same circuit *)
(* with dense_threshold = 1, and its end state is kept for comparison.     *)

RunCircuits ==
    {[nq |-> 2, gates |-> gs] :
        gs \in {<<Hadamard(0), CX(0, 1)>>,
                 <<Hadamard(0), Hadamard(1)>>,
                 <<Hadamard(0), Hadamard(1), Hadamard(0)>>,
                 <<X(0), CX(0, 1), Hadamard(1)>>,
                 <<Hadamard(0), T(0), Hadamard(0)>>,
                 <<Hadamard(1), CX(1, 0), RY(2, 0), CZ(0, 1)>>}}
    \cup {[nq |-> 3, gates |-> <<Hadamard(0), CX(0, 1), CX(1, 2)>>]}

RunConfigs ==
    {c \in {[dense_threshold |-> d, pull_threshold |-> pt, maxload |-> ml,
              block_size |-> 10000] :
                d \in {<<0, 1>>, <<1, 4>>, <<1, 1>>},
                pt \in {<<0, 1>>, <<4, 5>>, <<1, 1>>},
                ml \in {<<3, 4>>, <<1, 1>>}} :
        config_assert(c)}

\* the state every run starts from
initial_state == StateSparse([capacity |-> 1, cells |-> [k \in {zeros} |-> One]])

\* the scheduler and the state at the start of a run of the circuit gs
StartRun(gs, nq) ==
    /\ num_gates' = Len(gs)
    /\ gate_touches' = [gi \in 0 .. Len(gs) - 1 |->
                          {create_touches(gs[gi + 1])[k] :
                              k \in 1 .. Len(create_touches(gs[gi + 1]))}]
    /\ gate_is_branching' = [gi \in 0 .. Len(gs) - 1 |-> is_branching(gs[gi + 1])]
    /\ frontier' = new_frontier(Len(gs), nq,
                                [gi \in 0 .. Len(gs) - 1 |-> create_touches(gs[gi + 1])])
    /\ kernels' = <<>>
    /\ sched_status' = "running"
    /\ state' = initial_state
    /\ prev_num_nonzeros' = 1
    /\ run_status' = "scheduling"

InitRun ==
    /\ GateIdle
    /\ ApplyIdle
    /\ TraceIdle
    /\ TableIdle
    /\ push_result = None
    /\ pull_result = None
    /\ decomposed = None
    /\ decomp_result = None
    /\ ExpandIdle
    /\ SchedIdle
    /\ gates = <<>>
    /\ state = <<>>
    /\ \E c \in RunCircuits :
         /\ circuit = c.gates
         /\ num_qubits = c.nq
    /\ run_status = "idle"
    /\ ends = <<>>

\* the driver is started with a config
RunStart ==
    /\ run_status = "idle"
    /\ \E cfg \in RunConfigs : config' = cfg
    /\ StartRun(circuit, num_qubits)
    /\ UNCHANGED <<traceVars, gates, num_qubits, denseVars, decompVars, applyVars, gateVars, tableVars, circuit, ends,
                   expander, exp_status, result, sparseVars>>

\* what the driver does with the outcome r of pick_next_gates
RunPickKernel_with(r) ==
    /\ PickNextGates_with(r)
    /\ IF r.panic
       THEN /\ run_status' = "aborted"
            /\ UNCHANGED <<gates, exp_status>>
       ELSE IF r.next_gates = <<>>
       THEN /\ run_status' = "finished"
            /\ UNCHANGED <<gates, exp_status>>
       ELSE /\ run_status' = "expanding"
            /\ gates' = [i \in 1 .. Len(r.next_gates) |-> circuit[r.next_gates[i] + 1]]
            /\ exp_status' = "called"

RunPickKernel ==
    /\ run_status = "scheduling"
    /\ \E order \in HashOrders :
         RunPickKernel_with(
             pick_next_gates(num_gates, num_qubits,
                             [gi \in DOMAIN gate_touches |-> IterOrder(gate_touches[gi], order)],
                             gate_is_branching, frontier))
    /\ UNCHANGED <<traceVars, num_qubits, state, denseVars, decompVars, applyVars, gateVars, tableVars, circuit, ends,
                   num_gates, gate_touches, gate_is_branching, callVars, expander, result,
                   sparseVars>>

\* the state expand returned becomes the state, and its count of nonzeros
\* the previous count
RunNextState ==
    /\ run_status = "expanding"
    /\ exp_status = "returned"
    /\ state' = result[1].state
    /\ prev_num_nonzeros' = State_num_nonzeros(state)
    /\ run_status' = "scheduling"
    /\ exp_status' = "idle"
    /\ expander' = "none"
    /\ result' = None
    /\ table' = None
    /\ blocks' = <<>>
    /\ workers' = <<>>
    /\ is_full' = FALSE
    /\ UNCHANGED <<traceVars, gates, num_qubits, denseVars, decompVars, applyVars, gateVars, tableVars, schedVars,
                   circuit, ends, config>>

\* after the run with dense_threshold = 0, the run with dense_threshold = 1
RunAgain ==
    /\ run_status = "finished"
    /\ ends = <<>>
    /\ config.dense_threshold = <<0, 1>>
    /\ ends' = <<state>>
    /\ config' = [config EXCEPT !.dense_threshold = <<1, 1>>, !.pull_threshold = <<1, 1>>]
    /\ StartRun(circuit, num_qubits)
    /\ UNCHANGED <<traceVars, gates, num_qubits, denseVars, decompVars, applyVars, gateVars, tableVars, circuit,
                   expander, exp_status, result, sparseVars>>

NextRun ==
    \/ RunStart
    \/ RunPickKernel
    \/ ExpandParallel
    \/ EndPass
    \/ \E k \in 1 .. MaxBlocks : Worker(k)
    \/ RunNextState
    \/ RunAgain

SpecRun == InitRun /\ [][NextRun]_vars

----------------------------------------------------------------------------
(* Scheduler properties                                                    *)

RECURSIVE Concat(_)
Concat(ks) == IF ks = <<>> THEN <<>> ELSE Head(ks).next_gates \o Concat(Tail(ks))

\* every gate touches at least one qubit in [0, N)
EveryGateTouchesInRange ==
    \A gi \in DOMAIN gate_touches : \E q \in gate_touches[gi] : q < num_qubits

IsPermutation(sq, n) ==
    /\ Len(sq) = n
    /\ {sq[k] : k \in 1 .. Len(sq)} = 0 .. n - 1

KeepsCircuitOrder(sq) ==
    \A i, j \in 1 .. Len(sq) :
        (i < j /\ gate_touches[sq[i]] \cap gate_touches[sq[j]] # {}) => sq[i] < sq[j]

\* C1: when every gate touches at least one qubit in [0, N) and the
\* pick_next_gates calls have gone on until one returned an empty kernel,
\* the concatenation of the returned kernels is a permutation of 0..G-1 in
\* which any two gates sharing a touched qubit appear in circuit order.
C1_SchedulerPermutation ==
    (sched_status = "done" /\ EveryGateTouchesInRange)
        => /\ IsPermutation(Concat(kernels), num_gates)
           /\ KeepsCircuitOrder(Concat(kernels))

\* a finished schedule of three gates that is not the circuit order and has
\* two gates on a common qubit
C1_Witness ==
    /\ sched_status = "done"
    /\ EveryGateTouchesInRange
    /\ num_gates = 3
    /\ Concat(kernels) # <<0, 1, 2>>
    /\ IsPermutation(Concat(kernels), num_gates)
    /\ \E g, h \in DOMAIN gate_touches : g # h /\ gate_touches[g] \cap gate_touches[h] # {}

\* the positions of kernel k that hold a gate flagged branching
BranchingAt(k) == {i \in 1 .. Len(k.next_gates) : gate_is_branching[k.next_gates[i]]}

\* C12: every returned kernel holds at most max_branching_stride gates
\* flagged branching, and when it holds that many the last of them is the
\* last gate of the kernel.
C12_BranchingStride ==
    \A n \in 1 .. Len(kernels) :
        /\ Cardinality(BranchingAt(kernels[n])) <= max_branching_stride
        /\ Cardinality(BranchingAt(kernels[n])) = max_branching_stride
             => Len(kernels[n].next_gates) \in BranchingAt(kernels[n])

\* a kernel was cut at its second branching gate, and a third branching
\* gate is in the next kernel
C12_Witness ==
    /\ Len(kernels) >= 2
    /\ Len(kernels[1].next_gates) = 2
    /\ Cardinality(BranchingAt(kernels[1])) = 2
    /\ Cardinality(BranchingAt(kernels[2])) = 1

\* the gates touching qubit q that lie strictly between g and h in circuit order
Between(g, h, q) == {x \in DOMAIN gate_touches : g < x /\ x < h /\ q \in gate_touches[x]}

\* C13: of two gates of one kernel that share a touched qubit, the one
\* placed earlier is the earlier in circuit order, and no other gate
\* touching the shared qubit lies between them in circuit order.
C13_KernelCommuting ==
    \A n \in 1 .. Len(kernels) :
        \A i, j \in 1 .. Len(kernels[n].next_gates) :
            \A q \in gate_touches[kernels[n].next_gates[i]]
                        \cap gate_touches[kernels[n].next_gates[j]] :
                i < j => /\ kernels[n].next_gates[i] < kernels[n].next_gates[j]
                         /\ Between(kernels[n].next_gates[i], kernels[n].next_gates[j], q) = {}

\* C13 as amended: the earlier placed is the earlier in circuit order, and
\* every gate touching the shared qubit that lies between them in circuit
\* order is in the kernel too, placed between them.
C13_KernelContiguous ==
    \A n \in 1 .. Len(kernels) :
        \A i, j \in 1 .. Len(kernels[n].next_gates) :
            \A q \in gate_touches[kernels[n].next_gates[i]]
                        \cap gate_touches[kernels[n].next_gates[j]] :
                i < j => /\ kernels[n].next_gates[i] < kernels[n].next_gates[j]
                         /\ \A x \in Between(kernels[n].next_gates[i],
                                              kernels[n].next_gates[j], q) :
                                \E m \in i + 1 .. j - 1 : kernels[n].next_gates[m] = x

\* a kernel holds three gates that all touch one qubit
C13_Witness ==
    /\ Len(kernels) >= 1
    /\ kernels[1].next_gates = <<0, 1, 2>>
    /\ \E q \in 0 .. num_qubits - 1 : \A gi \in DOMAIN gate_touches : q \in gate_touches[gi]

\* the positions of the nonbranching runs of kernel k: run m holds the
\* positions RunFirst(k, m) .. k.runs[m]
RunFirst(k, m) == IF m = 1 THEN 1 ELSE k.runs[m - 1] + 2

\* C14: within each nonbranching run of a returned kernel the gate indices
\* increase.
C14_RunsIncreasing ==
    \A n \in 1 .. Len(kernels) :
        \A m \in 1 .. Len(kernels[n].runs) :
            \A i, j \in RunFirst(kernels[n], m) .. kernels[n].runs[m] :
                i < j => kernels[n].next_gates[i] < kernels[n].next_gates[j]

\* C14 as amended: within each nonbranching run, two gates that share a
\* touched qubit appear in increasing circuit order.
C14_RunsIncreasingPerQubit ==
    \A n \in 1 .. Len(kernels) :
        \A m \in 1 .. Len(kernels[n].runs) :
            \A i, j \in RunFirst(kernels[n], m) .. kernels[n].runs[m] :
                (i < j /\ gate_touches[kernels[n].next_gates[i]]
                            \cap gate_touches[kernels[n].next_gates[j]] # {})
                    => kernels[n].next_gates[i] < kernels[n].next_gates[j]

\* a nonbranching run of three gates that is not in circuit order although
\* two of its gates share a qubit
C14_Witness ==
    /\ Len(kernels) >= 1
    /\ kernels[1].runs[1] = 3
    /\ kernels[1].next_gates # <<0, 1, 2>>
    /\ \E g, h \in DOMAIN gate_touches : g # h /\ gate_touches[g] \cap gate_touches[h] # {}

\* the gates that touch a qubit q >= N
OutOfRange == {gi \in DOMAIN gate_touches : \E q \in gate_touches[gi] : q >= num_qubits}

\* C19: the scheduling of a circuit with a gate that touches a qubit
\* q >= N never ends with the empty kernel, and no kernel holds such a gate.
C19_OutOfRangeRejected ==
    OutOfRange # {}
        => /\ sched_status # "done"
           /\ \A n \in 1 .. Len(kernels) :
                \A i \in 1 .. Len(kernels[n].next_gates) :
                    kernels[n].next_gates[i] \notin OutOfRange

\* every gate touches a qubit, as every gate of Gate::new with a branching
\* flag does (create_touches is empty for Other only, whose branching_type
\* is unimplemented)
EveryGateTouches == \A gi \in DOMAIN gate_touches : gate_touches[gi] # {}

\* the kernels returned by the first n calls, concatenated
Scheduled(n) == Concat(SubSeq(kernels, 1, n))

\* C27: a pick_next_gates call made while a gate is unscheduled returns a
\* nonempty kernel, a call made once all G gates are scheduled returns the
\* empty kernel, and the calls end with all G gates scheduled.  Stated for
\* the circuits Gate::new can build, whose gates each touch a qubit; the
\* qubits may be out of range, which nothing rejects (C19).
C27_SchedulerProgress ==
    EveryGateTouches
        => /\ sched_status # "panicked"
           /\ \A n \in 1 .. Len(kernels) :
                  kernels[n].next_gates = <<>> <=> Len(Scheduled(n - 1)) = num_gates
           /\ sched_status = "done" => Len(Concat(kernels)) = num_gates

\* C27, for the circuits whose gates each touch a qubit and only qubits in
\* [0, N): a call made while a gate is unscheduled returns a nonempty
\* kernel, a call made once all G gates are scheduled returns the empty
\* kernel, and the repeated calls do come to have scheduled all G gates.
C27_WellFormedProgress ==
    /\ [](WellFormed
            => \A n \in 1 .. Len(kernels) :
                   kernels[n].next_gates = <<>> <=> Len(Scheduled(n - 1)) = num_gates)
    /\ <>(WellFormed => (sched_status = "done" /\ Len(Concat(kernels)) = num_gates))

\* three gates were scheduled by two nonempty kernels, and the third call
\* returned the empty kernel
C27_Witness ==
    /\ WellFormed
    /\ num_gates = 3
    /\ Len(kernels) = 3
    /\ kernels[1].next_gates # <<>>
    /\ kernels[2].next_gates # <<>>
    /\ kernels[3].next_gates = <<>>
    /\ sched_status = "done"

\* the gates visited so far
Visited == {Concat(kernels)[k] : k \in 1 .. Len(Concat(kernels))}

\* the lowest-indexed gate of the set gs that touches q, or G if none does
Lowest(q, gs) ==
    IF \E g \in gs : q \in gate_touches[g]
    THEN CHOOSE g \in gs : /\ q \in gate_touches[g]
                           /\ \A h \in gs : q \in gate_touches[h] => g <= h
    ELSE num_gates

\* C28: for every qubit q in [0, N), frontier[q] is the lowest-indexed gate
\* touching q that has not been visited, or G if there is none; the visited
\* gates touching q are a prefix of the gates touching q in circuit order;
\* and frontier[q] never decreases.
C28_FrontierInvariant ==
    /\ [](\A q \in 0 .. num_qubits - 1 :
              /\ frontier[q] = Lowest(q, DOMAIN gate_touches \ Visited)
              /\ \A g \in Visited : \A h \in DOMAIN gate_touches :
                     (q \in gate_touches[g] /\ q \in gate_touches[h] /\ h < g)
                         => h \in Visited)
    /\ [][\A q \in 0 .. num_qubits - 1 : frontier'[q] >= frontier[q]]_vars

\* after a first kernel one qubit's frontier is at a gate still to be
\* visited, past gate 0, and another qubit's frontier is at G
C28_Witness ==
    /\ Len(kernels) = 1
    /\ sched_status = "running"
    /\ \E q \in 0 .. num_qubits - 1 : frontier[q] > 0 /\ frontier[q] < num_gates
    /\ \E q \in 0 .. num_qubits - 1 : frontier[q] = num_gates /\ Lowest(q, Visited) < num_gates

\* gate g is ready at the frontier fr: frontier[q] = g for every q in touches(g)
Ready(fr, g) == \A q \in gate_touches[g] : q \in DOMAIN fr /\ fr[q] = g

\* the frontier once the gates of the set gs have been visited
FrontierPast(gs) == [q \in 0 .. num_qubits - 1 |-> Lowest(q, DOMAIN gate_touches \ gs)]

\* the gates at the positions 1 .. k of the sequence sq
Firsts(sq, k) == {sq[i] : i \in 1 .. k}

\* C29: no assertion of the scheduler fails (a call aborts only on a qubit
\* index out of range); every gate was ready when it was visited; no gate
\* is visited twice; and no visited gate is okay_to_visit on return.
C29_AssertionsHold ==
    /\ sched_status = "panicked" => OutOfRange # {}
    /\ \A k \in 1 .. Len(Concat(kernels)) :
           /\ Ready(FrontierPast(Firsts(Concat(kernels), k - 1)), Concat(kernels)[k])
           /\ Concat(kernels)[k] \notin Firsts(Concat(kernels), k - 1)
           /\ ~Ready(frontier, Concat(kernels)[k])

\* three gates in range have been visited, one of which was not ready at
\* the start
C29_Witness ==
    /\ OutOfRange = {}
    /\ sched_status = "done"
    /\ Len(Concat(kernels)) = 3
    /\ \E g \in Visited : ~Ready(FrontierPast({}), g)

\* the gates picked by the calls before the n-th
Before(n) == Firsts(Concat(kernels), Len(Scheduled(n - 1)))

\* C30: for a circuit whose gates each touch a qubit: when
\* visit_maximal_nonbranching_run returns, no gate flagged nonbranching is
\* ready; and after a kernel with fewer than max_branching_stride branching
\* gates no gate at all is ready.
C30_MaximalRun ==
    EveryGateTouches
        => \A n \in 1 .. Len(kernels) :
               /\ \A m \in 1 .. Len(kernels[n].runs) :
                      \A g \in DOMAIN gate_touches :
                          ~gate_is_branching[g]
                              => ~Ready(FrontierPast(Before(n)
                                            \cup Firsts(kernels[n].next_gates,
                                                        kernels[n].runs[m])), g)
               /\ Cardinality(BranchingAt(kernels[n])) < max_branching_stride
                      => \A g \in DOMAIN gate_touches :
                             ~Ready(FrontierPast(Before(n + 1)), g)

\* a nonbranching run that took a second sweep: gate 2 on qubit 0 became
\* ready when gate 1 was visited at qubit 2
C30_Witness ==
    /\ WellFormed
    /\ num_gates = 3
    /\ gate_touches[0] = {2}
    /\ gate_touches[1] = {0, 2}
    /\ gate_touches[2] = {0}
    /\ Len(kernels) >= 1
    /\ kernels[1].next_gates = <<0, 1, 2>>
    /\ kernels[1].runs = <<3>>

----------------------------------------------------------------------------
(* Properties of expand                                                    *)

\* the sum of the weights of the push paths that start from (x, w), go
\* through the gates gs and end at y
RECURSIVE PathSum(_, _, _, _)
PathSum_of(rest, out, y) ==
    IF Len(out) = 1 THEN PathSum(rest, out[1][1], out[1][2], y)
    ELSE CAdd(PathSum(rest, out[1][1], out[1][2], y), PathSum(rest, out[2][1], out[2][2], y))

PathSum(gs, x, w, y) ==
    IF is_zero(w) THEN Zero
    ELSE IF gs = <<>> THEN (IF x = y THEN w ELSE Zero)
    ELSE PathSum_of(Tail(gs), push_apply(gs[1], x, w), y)

\* the sum over the source entries ks of st
KernelSum_of(gs, st, ks, y) ==
    CSumSeq([i \in 1 .. Len(ks) |-> PathSum(gs, ks[i], State_get(st, ks[i]), y)])

\* the sum over all source entries of st
KernelSum(gs, st, n, y) ==
    KernelSum_of(gs, st, SortedSeq({x \in Cells(n) : is_nonzero(State_get(st, x))}), y)

ReturnedSparse ==
    /\ expander = "parallel"
    /\ exp_status = "returned"
    /\ result[1].method = "Sparse"

\* C4: when expand_sparse returns, the amplitude the returned table holds
\* for every basis y is the sum of the weights of all push paths from the
\* entries of the previous state through the kernel to y.
C4_SparseExactSum ==
    ReturnedSparse
        => \A y \in Cells(num_qubits) :
               State_get(result[1].state, y) = KernelSum(gates, state, num_qubits, y)

\* the expected number of nonzeros of the call
Expected == expected_cost(num_qubits, State_num_nonzeros(state), prev_num_nonzeros)

\* C5: expand_sparse, once running, returns; and what it returns is a Sparse
\* state, with no block left and every block of the last pass at its end
\* with nothing postponed.
C5_SparseTerminates ==
    /\ [](exp_status = "sparse" => <>(exp_status = "returned"))
    /\ [](ReturnedSparse
            => /\ result[1].state.kind = "Sparse"
               /\ blocks = <<>>
               /\ \A k \in DOMAIN workers :
                    /\ workers[k].pc = "done"
                    /\ workers[k].ps2 = <<>>
                    /\ workers[k].s2 = Stop(k))

\* expand_sparse has returned after the table overflowed and was grown, on a
\* state split into two blocks
C5_Witness ==
    /\ ReturnedSparse
    /\ Len(workers) = 2
    /\ table[1].capacity > SparseStateTable_new(num_qubits, config.maxload, Expected).capacity

\* the method of the call: of the expansion running or returned
MethodUsed == IF exp_status = "sparse" THEN "Sparse" ELSE result[1].method

\* C6: the parallel expand uses, and reports, Sparse iff the expected density
\* is below dense_threshold; otherwise PullDense iff the expected density is
\* at least pull_threshold and every gate has a pull action; otherwise
\* PushDense.
C6_DispatchRule ==
    (expander = "parallel" /\ exp_status \in {"sparse", "returned"})
        => /\ MethodUsed \in {"Sparse", "PullDense", "PushDense"}
           /\ MethodUsed = "Sparse" <=> DensityBelow(Expected, num_qubits, config.dense_threshold)
           /\ MethodUsed = "PullDense"
                <=> /\ ~DensityBelow(Expected, num_qubits, config.dense_threshold)
                    /\ ~DensityBelow(Expected, num_qubits, config.pull_threshold)
                    /\ \A i \in 1 .. Len(gates) : is_pullable(gates[i])

\* a kernel with a gate that has no pull action went to dense push although
\* the expected density had reached pull_threshold
C6_Witness ==
    /\ expander = "parallel"
    /\ exp_status = "returned"
    /\ result[1].method = "PushDense"
    /\ ~DensityBelow(Expected, num_qubits, config.pull_threshold)
    /\ \E i \in 1 .. Len(gates) : ~is_pullable(gates[i])

\* C7: a call of expand, of either expander, with a valid config yields a
\* Sparse state when the expected density is below dense_threshold and a
\* Dense state otherwise.
C7_SparseIffBelowThreshold ==
    (exp_status \in {"returned", "unimplemented"})
        => /\ result # None
           /\ result[1].state.kind
                = IF DensityBelow(Expected, num_qubits, config.dense_threshold)
                  THEN "Sparse" ELSE "Dense"

\* C8: the parallel expand stops at its assertion exactly when
\* dense_threshold > pull_threshold, and then no table has been created and
\* nothing has been applied or returned.
C8_AssertBeforeWork ==
    (expander = "parallel")
        => /\ exp_status = "assert_failed"
                <=> config.dense_threshold[1] * config.pull_threshold[2]
                        > config.pull_threshold[1] * config.dense_threshold[2]
           /\ exp_status = "assert_failed"
                => (result = None /\ table = None /\ blocks = <<>> /\ workers = <<>>)

\* the default pull threshold with a larger dense threshold
C8_Witness ==
    /\ exp_status = "assert_failed"
    /\ config.dense_threshold = <<1, 1>>
    /\ config.pull_threshold = <<4, 5>>

----------------------------------------------------------------------------
(* Properties of the driver loop                                           *)

\* the complex conjugate: w = e^{i pi/4} goes to w^7 = -w^3
CConj(z) == <<z[1], -z[4], -z[3], -z[2], z[5]>>

\* the sum of the squared magnitudes of the amplitudes of st
NormSq_of(st, n) ==
    CSumSeq([i \in 1 .. Pow2(n) |->
                CMul(State_get(st, i - 1), CConj(State_get(st, i - 1)))])

\* C15: the state a run starts from and the state after every kernel have
\* squared amplitude magnitudes that sum to 1.
C15_NormPreserved ==
    run_status \in {"scheduling", "finished"} => NormSq_of(state, num_qubits) = One

\* C16: the run with dense_threshold = 0 and the run with dense_threshold = 1
\* of the same circuit end in states with the same amplitude at every
\* basis index.
C16_RepresentationIndependent ==
    (run_status = "finished" /\ ends # <<>>)
        => \A y \in Cells(num_qubits) : State_get(ends[1], y) = State_get(state, y)

\* C17: the run of H(0); CX(0,1) on two qubits ends with amplitude 1/sqrt 2
\* at 00 and at 11 and zero at 01 and at 10.
C17_BellPair ==
    (run_status = "finished" /\ num_qubits = 2 /\ circuit = <<Hadamard(0), CX(0, 1)>>)
        => /\ State_get(state, 0) = RECP_SQRT_2
           /\ State_get(state, 1) = Zero
           /\ State_get(state, 2) = Zero
           /\ State_get(state, 3) = RECP_SQRT_2

----------------------------------------------------------------------------
(* Properties of decompose_gate and of the calls on Other                  *)

\* C11: every gate of the sequence decompose_gate returns touches one or two
\* qubits, and decompose_gate applied to it returns it alone.
C11_DecomposeOnlySmallGates ==
    decomposed # None
        => \A i \in 1 .. Len(decomposed[1]) :
               /\ Len(create_touches(decomposed[1][i])) \in {1, 2}
               /\ decompose_gate(decomposed[1][i]) = <<decomposed[1][i]>>

\* C11 as amended: the sequence holds no CCX and no CSwap, each of its gates
\* other than an Other gate touches one or two qubits, and decompose_gate
\* applied to any of its gates returns that gate alone.
C11_DecomposeNoCCXNoCSwap ==
    decomposed # None
        => \A i \in 1 .. Len(decomposed[1]) :
               /\ decomposed[1][i].kind \notin {"CCX", "CSwap"}
               /\ decomposed[1][i].kind # "Other"
                    => Len(create_touches(decomposed[1][i])) \in {1, 2}
               /\ decompose_gate(decomposed[1][i]) = <<decomposed[1][i]>>

\* a CSwap has been decomposed
C11_Witness ==
    /\ decomposed # None
    /\ gates[1].kind = "CSwap"
    /\ Len(decomposed[1]) > 1

\* C18: on an Other gate none of Gate::new (create_pull_action),
\* branching_type and push_apply returns, and no expansion of a kernel that
\* holds the gate produces a state.
C18_OtherNeverApplied ==
    gates[1].kind = "Other"
        => /\ gate_calls.new # "returned"
           /\ gate_calls.branching_type # "returned"
           /\ gate_calls.push_apply # "returned"
           /\ push_result = None
           /\ pull_result = None

\* the three calls have been made on an Other gate and each has aborted
C18_Witness ==
    /\ gates[1].kind = "Other"
    /\ gate_calls.new = "unimplemented"
    /\ gate_calls.branching_type = "unimplemented"
    /\ gate_calls.push_apply = "unimplemented"

----------------------------------------------------------------------------
(* Properties of mps_simulator's DenseStateTable                           *)

\* the sum of the weights put under key i, in the order of the puts
RECURSIVE PutSum(_, _)
PutSum(ps, i) ==
    IF ps = <<>> THEN Zero
    ELSE CAdd(PutSum(SubSeq(ps, 1, Len(ps) - 1), i),
              IF ps[Len(ps)][1] = i THEN ps[Len(ps)][2] ELSE Zero)

\* C20: the table has 2^N cells, all zero after new, and after any puts
\* each cell holds the sum of the weights put under its key.
C20_DensePutAccumulates ==
    array # <<>>
        => /\ DOMAIN array = 0 .. Pow2(num_qubits) - 1
           /\ \A i \in DOMAIN array : array[i] = PutSum(puts, i)

\* two weights have been put under one key and one under another
C20_Witness ==
    /\ Len(puts) = 3
    /\ puts[1][1] = puts[3][1]
    /\ puts[2][1] # puts[1][1]
    /\ is_nonzero(array[puts[1][1]])
    /\ array[puts[1][1]] # puts[3][2]

----------------------------------------------------------------------------
(* Properties of push_apply, of the pull actions and of the branching      *)
(* classification, gate by gate                                            *)

\* the bits of the basis index b over n qubits
Bits(b, n) == [q \in 0 .. n - 1 |-> get(b, q)]

\* the bits a permutation gate gives the bits x, as the table of push
\* semantics has them
PermutedBits(defn, x) ==
    CASE defn.kind = "X" -> [x EXCEPT ![defn.q1] = ~x[defn.q1]]
      [] defn.kind = "CX" -> [x EXCEPT ![defn.q2] = IF x[defn.q1] THEN ~x[defn.q2] ELSE x[defn.q2]]
      [] defn.kind = "CCX" ->
           [x EXCEPT ![defn.q3] = IF x[defn.q1] /\ x[defn.q2] THEN ~x[defn.q3] ELSE x[defn.q3]]
      [] defn.kind = "Swap" -> [x EXCEPT ![defn.q1] = x[defn.q2], ![defn.q2] = x[defn.q1]]
      [] defn.kind = "CSwap" ->
           IF x[defn.q1]
           THEN [x EXCEPT ![defn.q2] = x[defn.q3], ![defn.q3] = x[defn.q2]]
           ELSE x

\* C21: push_apply of X, CX, CCX, Swap and CSwap on (bidx, w) returns one
\* output, with the weight w and with the basis the table gives: the bits of
\* the touched qubits flipped or swapped under the table's condition, every
\* other bit as it was.
C21_PermutationGatesPush ==
    (gates[1].kind \in {"X", "CX", "CCX", "Swap", "CSwap"} /\ apply_out.push # "none")
        => /\ apply_out.push = "returned"
           /\ Len(apply_out.push_out) = 1
           /\ apply_out.push_out[1][2] = apply_in.weight
           /\ apply_out.push_out[1][1] \in Cells(num_qubits)
           /\ Bits(apply_out.push_out[1][1], num_qubits)
                = PermutedBits(gates[1], Bits(apply_in.bidx, num_qubits))
           /\ \A q \in 0 .. num_qubits - 1 :
                  (\A k \in 1 .. Len(create_touches(gates[1])) : create_touches(gates[1])[k] # q)
                      => get(apply_out.push_out[1][1], q) = get(apply_in.bidx, q)

\* CSwap was pushed on a basis with the control set and the two targets
\* different, and with a weight other than 1
C21_Witness ==
    /\ gates[1].kind = "CSwap"
    /\ apply_out.push = "returned"
    /\ get(apply_in.bidx, gates[1].q1)
    /\ get(apply_in.bidx, gates[1].q2) # get(apply_in.bidx, gates[1].q3)
    /\ apply_in.weight = <<1, 2, 0, 3, 1>>
    /\ apply_out.push_out[1][1] # apply_in.bidx

\* e^{i k pi/4}
Omega(k) ==
    LET m == k % 8
    IN  CASE m = 0 -> One
          [] m = 1 -> <<0, 1, 0, 0, 0>>
          [] m = 2 -> ImagI
          [] m = 3 -> <<0, 0, 0, 1, 0>>
          [] m = 4 -> CNeg(One)
          [] m = 5 -> <<0, -1, 0, 0, 0>>
          [] m = 6 -> CNeg(ImagI)
          [] m = 7 -> <<0, 0, 0, -1, 0>>

\* the factor the table of push semantics gives a diagonal gate on bidx;
\* the angles are in units of pi/4
DiagonalFactor(defn, bidx) ==
    CASE defn.kind = "CZ" ->
           IF get(bidx, defn.q1) /\ get(bidx, defn.q2) THEN CNeg(One) ELSE One
      [] defn.kind = "PauliZ" -> IF get(bidx, defn.q1) THEN CNeg(One) ELSE One
      [] defn.kind = "S" -> IF get(bidx, defn.q1) THEN ImagI ELSE One
      [] defn.kind = "Sdg" -> IF get(bidx, defn.q1) THEN CNeg(ImagI) ELSE One
      [] defn.kind = "T" -> IF get(bidx, defn.q1) THEN Omega(1) ELSE One
      [] defn.kind = "Tdg" -> IF get(bidx, defn.q1) THEN Omega(7) ELSE One
      [] defn.kind = "Phase" -> IF get(bidx, defn.q1) THEN Omega(defn.r1) ELSE One
      [] defn.kind = "CPhase" ->
           IF get(bidx, defn.q1) /\ get(bidx, defn.q2) THEN Omega(defn.r1) ELSE One
      [] defn.kind = "RZ" ->
           IF get(bidx, defn.q1)
           THEN Omega(defn.r1 \div 2) ELSE Omega(8 - ((defn.r1 \div 2) % 8))

\* C22: push_apply of CZ, PauliZ, S, Sdg, T, Tdg, Phase, CPhase and RZ on
\* (bidx, w) returns one output, with the basis bidx and with the weight w
\* multiplied by the factor of the table.
C22_DiagonalGatesPush ==
    (/\ gates[1].kind \in {"CZ", "PauliZ", "S", "Sdg", "T", "Tdg", "Phase", "CPhase", "RZ"}
     /\ apply_out.push # "none")
        => /\ apply_out.push = "returned"
           /\ Len(apply_out.push_out) = 1
           /\ apply_out.push_out[1][1] = apply_in.bidx
           /\ apply_out.push_out[1][2]
                = CMul(DiagonalFactor(gates[1], apply_in.bidx), apply_in.weight)

\* RZ of pi/2 was pushed on a basis whose target bit is clear, with a
\* weight other than 1: the factor is e^{-i pi/4}
C22_Witness ==
    /\ gates[1].kind = "RZ"
    /\ gates[1].r1 = 2
    /\ ~get(apply_in.bidx, gates[1].q1)
    /\ apply_in.weight = <<1, 2, 0, 3, 1>>
    /\ apply_out.push = "returned"
    /\ apply_out.push_out[1][2] = CMul(Omega(7), apply_in.weight)

\* C23: push_apply of a gate classified Nonbranching returns one output and
\* of a gate classified Branching two, whatever the input; is_branching is
\* true exactly for the gates classified Branching or MaybeBranching.
C23_BranchingAgreesWithPush ==
    /\ apply_out.push = "returned"
         => /\ branching_type(gates[1]) = "Nonbranching" => Len(apply_out.push_out) = 1
            /\ branching_type(gates[1]) = "Branching" => Len(apply_out.push_out) = 2
    /\ gate_calls.branching_type = "returned"
         => (is_branching(gates[1])
                <=> branching_type(gates[1]) \in {"Branching", "MaybeBranching"})

\* RY of angle 0, the identity, is classified Branching and its push has
\* returned two outputs
C23_Witness ==
    /\ gates[1].kind = "RY"
    /\ gates[1].r1 = 0
    /\ gate_calls.branching_type = "returned"
    /\ branching_type(gates[1]) = "Branching"
    /\ apply_out.push = "returned"
    /\ Len(apply_out.push_out) = 2

\* C26: Gate::new gives a pull action to every gate of the kinds CCX,
\* CPhase, CSwap, Swap, FSim, PauliY, PauliZ, S, Sdg, T, Tdg and X.
C26_DerivedKindsPullable ==
    (/\ gate_calls.new = "returned"
     /\ gates[1].kind \in {"CCX", "CPhase", "CSwap", "Swap", "FSim", "PauliY", "PauliZ",
                           "S", "Sdg", "T", "Tdg", "X"})
        => is_pullable(gates[1])

\* C26 as amended: of these kinds, Gate::new gives a pull action to CPhase,
\* Swap, PauliY, PauliZ, S, Sdg, T, Tdg and X, and none to CCX, CSwap and
\* FSim.
C26_DerivedKindsPullableButThree ==
    (/\ gate_calls.new = "returned"
     /\ gates[1].kind \in {"CCX", "CPhase", "CSwap", "Swap", "FSim", "PauliY", "PauliZ",
                           "S", "Sdg", "T", "Tdg", "X"})
        => (is_pullable(gates[1]) <=> gates[1].kind \notin {"CCX", "CSwap", "FSim"})

\* Gate::new has returned a CCX without a pull action, and its push_apply
\* returns
C26_Witness ==
    /\ gates[1].kind = "CCX"
    /\ gate_calls.new = "returned"
    /\ ~is_pullable(gates[1])
    /\ apply_out.push = "returned"
    /\ apply_out.pull = "none"

----------------------------------------------------------------------------
(* Properties of the generic 2x2 routines                                  *)

\* C24: single_qubit_unitary_push and single_qubit_unitary_pull select the
\* same case.  a = d = 0: one pair on flip(t), push with c*w for input bit 0
\* and b*w for input bit 1.  b = c = 0: one pair on bidx, push with a*w for
\* bit 0 and d*w for bit 1.  Otherwise two pairs, on unset(t) and set(t):
\* push with the column of the input bit, pull with the row of the output bit.
C24_PushPullSameCase ==
    (apply_out.push = "returned" /\ apply_out.pull = "returned")
        => LET bit == get(apply_in.bidx, apply_in.target)
               w == apply_in.weight
           IN  IF apply_in.a = Zero /\ apply_in.d = Zero
               THEN /\ apply_out.push_out
                         = << <<flip(apply_in.bidx, apply_in.target),
                                CMul(IF bit THEN apply_in.b ELSE apply_in.c, w)>> >>
                    /\ Len(apply_out.pull_out) = 1
                    /\ apply_out.pull_out[1][1] = flip(apply_in.bidx, apply_in.target)
               ELSE IF apply_in.b = Zero /\ apply_in.c = Zero
               THEN /\ apply_out.push_out
                         = << <<apply_in.bidx,
                                CMul(IF bit THEN apply_in.d ELSE apply_in.a, w)>> >>
                    /\ Len(apply_out.pull_out) = 1
                    /\ apply_out.pull_out[1][1] = apply_in.bidx
               ELSE /\ apply_out.push_out
                         = << <<unset(apply_in.bidx, apply_in.target),
                                CMul(IF bit THEN apply_in.b ELSE apply_in.a, w)>>,
                              <<set(apply_in.bidx, apply_in.target),
                                CMul(IF bit THEN apply_in.d ELSE apply_in.c, w)>> >>
                    /\ apply_out.pull_out
                         = << <<unset(apply_in.bidx, apply_in.target),
                                IF bit THEN apply_in.c ELSE apply_in.a>>,
                              <<set(apply_in.bidx, apply_in.target),
                                IF bit THEN apply_in.d ELSE apply_in.b>> >>

\* both routines have returned two pairs for a matrix whose rows differ
\* from its columns, on a basis whose target bit is set
C24_Witness ==
    /\ apply_out.push = "returned"
    /\ apply_out.pull = "returned"
    /\ apply_in.a = One
    /\ apply_in.b = ImagI
    /\ apply_in.c = RECP_SQRT_2
    /\ apply_in.d = One
    /\ get(apply_in.bidx, apply_in.target)
    /\ Len(apply_out.push_out) = 2
    /\ Len(apply_out.pull_out) = 2

\* some column of (a, b; c, d) is wholly zero
ZeroColumn == (apply_in.a = Zero /\ apply_in.c = Zero) \/ (apply_in.b = Zero /\ apply_in.d = Zero)

----------------------------------------------------------------------------
(* Properties of the passes of expand_sparse                               *)

\* closure k pops a postponed path in this step
Replays(k) ==
    /\ k \in DOMAIN workers'
    /\ workers[k].pc = "step1"
    /\ workers'[k].pc = "apply"

\* the closures that call get(i) in this step, with the index i
Readers == {k \in DOMAIN workers : workers[k].pc = "step2" /\ reads' = [j \in DOMAIN reads \cup {workers[k].i} |->
                 (IF j \in DOMAIN reads THEN reads[j] ELSE 0) + (IF j = workers[k].i THEN 1 ELSE 0)]}

\* C31: a closure that replays a postponed path applies the recorded
\* (bidx, weight) from the recorded gate index, which is past gate 0, and
\* reads no source entry for it; a source entry is read only by a closure
\* whose postponed list is empty, from its cursor s on, and no entry is read
\* twice; and the cursor of a block never decreases.
C31_ReplayThenContinue ==
    /\ [][\A k \in DOMAIN workers :
             Replays(k)
                 => /\ workers'[k].stack = << workers[k].ps2[Len(workers[k].ps2)] >>
                    /\ workers'[k].stack[1][3] >= 1
                    /\ workers'[k].ps2 = SubSeq(workers[k].ps2, 1, Len(workers[k].ps2) - 1)
                    /\ reads' = reads]_vars
    /\ [][reads' # reads /\ exp_status = "sparse"
             => \E k \in Readers :
                    /\ workers[k].ps2 = <<>>
                    /\ workers[k].i >= workers[k].s
                    /\ workers[k].i < Stop(k)
                    /\ \A j \in workers[k].s .. workers[k].i - 1 : j \in DOMAIN reads]_vars
    /\ [](\A i \in DOMAIN reads : reads[i] = 1)
    /\ [](\A k \in DOMAIN workers : workers[k].s2 >= workers[k].s)
    /\ [][\A x \in DOMAIN blocks : \A y \in DOMAIN blocks' :
             (exp_status' = "sparse" /\ blocks[x].b = blocks'[y].b) => blocks'[y].s >= blocks[x].s]_vars

\* in a pass that follows a resize a closure has replayed its postponed
\* paths and is applying the source entry at its cursor
C31_Witness ==
    /\ exp_status = "sparse"
    /\ \E k \in DOMAIN workers :
         /\ blocks[k].ps # <<>>
         /\ blocks[k].s > 0
         /\ workers[k].step = 2
         /\ workers[k].pc = "apply"
         /\ workers[k].ps2 = <<>>
         /\ workers[k].i \in DOMAIN reads

\* the push_apply calls made on the path that starts from (x, w) and goes
\* through the gates gs, when nothing is postponed
RECURSIVE PathApplications(_, _, _)
PathApplications_of(rest, out) ==
    IF Len(out) = 1 THEN 1 + PathApplications(rest, out[1][1], out[1][2])
    ELSE 1 + PathApplications(rest, out[1][1], out[1][2])
           + PathApplications(rest, out[2][1], out[2][2])

PathApplications(gs, x, w) ==
    IF is_zero(w) \/ gs = <<>> THEN 0
    ELSE PathApplications_of(Tail(gs), push_apply(gs[1], x, w))

\* f[lo] + ... + f[hi], by halves
RECURSIVE SumRange(_, _, _)
SumRange(f, lo, hi) ==
    IF lo > hi THEN 0
    ELSE IF lo = hi THEN f[lo]
    ELSE SumRange(f, lo, (lo + hi) \div 2) + SumRange(f, (lo + hi) \div 2 + 1, hi)

SumTo(f, n) == SumRange(f, 1, n)

\* the push_apply calls of a run over all source entries in which no try_put
\* overflows
KernelApplications(gs, st) ==
    SumTo([i \in 1 .. sparse_n(st) |->
              PathApplications(gs, sparse_get(st, i - 1)[1], sparse_get(st, i - 1)[2])],
          sparse_n(st))

\* C32: when expand_sparse returns, the push_apply calls it has made are as
\* many as a run without overflow makes, whatever the overflows, the resizes
\* and the interleaving of the closures; and it never makes more.
C32_DeterministicWork ==
    /\ exp_status = "sparse" => gate_apps <= KernelApplications(gates, state)
    /\ ReturnedSparse => gate_apps = KernelApplications(gates, state)

\* expand_sparse has returned after a resize, having applied a branching
\* gate and a gate after it
C32_Witness ==
    /\ ReturnedSparse
    /\ table[1].capacity
         > SparseStateTable_new(num_qubits, config.maxload,
               expected_cost(num_qubits, State_num_nonzeros(state), prev_num_nonzeros)).capacity
    /\ Len(gates) = 2
    /\ gate_apps >= 3

\* every closure of the running parallel map has returned
PassOver == \A k \in DOMAIN workers : workers[k].pc = "done"

\* C33: during a pass the closures put into one table: the table is replaced
\* only when every closure of the pass has returned, so with no try_put in
\* flight; is_full, once set, stays set until the pass is over; and a closure
\* whose is_full.load has returned true makes no try_put in that pass.
C33_OneTablePerPass ==
    /\ [][(table # None /\ table' # None /\ table'[1].capacity # table[1].capacity)
             => PassOver]_vars
    /\ [][(table # None /\ table' # table /\ ~PassOver)
             => \E k \in DOMAIN workers :
                    /\ workers[k].pc = "try_put"
                    /\ table' = Some(try_put(table[1], workers[k].stack[1][1],
                                              workers[k].stack[1][2]))]_vars
    /\ [][(is_full /\ ~is_full') => PassOver]_vars
    /\ [](\A k \in observed : workers[k].pc # "try_put")
    /\ [][\A k \in observed : k \in observed' => table' = table \/ workers'[k] = workers[k]]_vars

\* of two closures one has set is_full and the other, at the end of a path,
\* has loaded it and skipped its try_put
C33_Witness ==
    /\ exp_status = "sparse"
    /\ is_full
    /\ Len(workers) = 2
    /\ \E k \in observed : workers[k].pc = "load2"

----------------------------------------------------------------------------
(* Properties of the dense expansions, task by task                        *)

\* the sum of the weights that the puts of the sequence ps add to cell y
RECURSIVE PutsInto(_, _)
PutsInto(ps, y) ==
    IF ps = <<>> THEN Zero
    ELSE CAdd(IF ps[1][1] = y THEN ps[1][2] ELSE Zero, PutsInto(Tail(ps), y))

\* the sum of the weights that the tasks 1 .. n have put into cell y
RECURSIVE MadeInto(_, _)
MadeInto(n, y) ==
    IF n = 0 THEN Zero ELSE CAdd(PutsInto(workers[n].made, y), MadeInto(n - 1, y))

\* C34: in expand_push_dense, however the atomic_puts of the closures
\* interleave, every cell of the new table holds the sum of the weights put
\* into it so far, and at return the sum of the weights of all push paths
\* that end at the cell.
C34_PushDenseExactSum ==
    /\ exp_status = "push_dense"
         => \A y \in Cells(num_qubits) : array[y] = MadeInto(Len(workers), y)
    /\ (exp_status = "returned" /\ result[1].method = "PushDense")
         => \A y \in Cells(num_qubits) :
                State_get(result[1].state, y) = KernelSum(gates, state, num_qubits, y)

\* expand_push_dense has returned and two closures have put into one cell
C34_Witness ==
    /\ exp_status = "returned"
    /\ result[1].method = "PushDense"
    /\ \E k1, k2 \in DOMAIN workers :
         /\ k1 # k2
         /\ \E i \in DOMAIN workers[k1].made : \E j \in DOMAIN workers[k2].made :
                workers[k1].made[i][1] = workers[k2].made[j][1]

ReturnedPullDense ==
    /\ exp_status = "returned"
    /\ result[1].method = "PullDense"

\* C35: in expand_pull_dense no cell is ever written twice, the task that
\* writes a cell is the one whose piece of the range holds it, the pieces
\* are disjoint, at return each of the 2^N cells has been written exactly
\* once, and the previous state is never changed.
C35_PullDenseWriteDisjoint ==
    /\ []((exp_status = "pull_dense" \/ ReturnedPullDense)
            => /\ \A y \in Cells(num_qubits) :
                     /\ Len(puts[y]) <= 1
                     /\ \A i \in DOMAIN puts[y] :
                            workers[puts[y][i]].lo <= y /\ y < workers[puts[y][i]].hi
               /\ \A k1, k2 \in DOMAIN workers :
                     k1 < k2 => workers[k1].hi <= workers[k2].lo)
    /\ [](ReturnedPullDense => \A y \in Cells(num_qubits) : Len(puts[y]) = 1)
    /\ [][state' = state]_vars

\* expand_pull_dense has returned a table that two tasks have written
C35_Witness ==
    /\ ReturnedPullDense
    /\ \E y1, y2 \in Cells(num_qubits) :
         /\ puts[y1] # <<>>
         /\ puts[y2] # <<>>
         /\ puts[y1][1] # puts[y2][1]
    /\ \E y \in Cells(num_qubits) : is_nonzero(array[y])

----------------------------------------------------------------------------
(* Properties of apply_pull_gates                                          *)

\* the pairs <<basis, product of multipliers>> reached from the pairs ps by
\* one more pull action, that of defn
RECURSIVE PullStep(_, _)
PullStep_of(defn, p, out) == [i \in 1 .. Len(out) |-> <<out[i][1], CMul(p[2], out[i][2])>>]

PullStep(defn, ps) ==
    IF ps = <<>> THEN <<>>
    ELSE PullStep_of(defn, ps[1], pull_action(defn, ps[1][1])) \o PullStep(defn, Tail(ps))

\* the pairs reached from the output basis y by the pull actions of the
\* gates 1 .. n of gs, taken in that order
RECURSIVE PullWalk(_, _, _)
PullWalk(gs, n, y) ==
    IF n = 0 THEN << <<y, One>> >> ELSE PullStep(gs[n], PullWalk(gs, n - 1, y))

\* the sum, over the pairs ps, of product times previous amplitude
PullWalkSum(ps, st) == CSumSeq([i \in 1 .. Len(ps) |-> CMul(ps[i][2], State_get(st, ps[i][1]))])

\* C36: the weight apply_pull_gates returns for the output basis y, which
\* expand_pull_dense puts into cell y, is the sum over the branches of the
\* walk from the first gate of the kernel to the last, each branch giving
\* the product of its multipliers times the previous amplitude at the basis
\* it reaches (zero when the previous state has no such entry).
C36_PullWalkFirstToLast ==
    pull_result # None
        => \A y \in Cells(num_qubits) :
               pull_result[1].state.table[y]
                   = PullWalkSum(PullWalk(gates, Len(gates), y), state)

\* a kernel of a branching gate and a gate that does not commute with it has
\* been pulled on a sparse state of one entry
C36_Witness ==
    /\ pull_result # None
    /\ gates = <<Hadamard(0), CX(0, 1)>>
    /\ state.kind = "Sparse"
    /\ Cardinality(DOMAIN state.table.cells) = 1
    /\ \E y \in Cells(num_qubits) : Len(PullWalk(gates, Len(gates), y)) = 2

----------------------------------------------------------------------------
(* Properties of the ExpandResult                                          *)

\* the pull-action calls of apply_pull_gates on the output basis y: one per
\* pair reached before each of the gates 1 .. n
RECURSIVE PullInvocations(_, _, _)
PullInvocations(gs, n, y) ==
    IF n = 0 THEN 0 ELSE Len(PullWalk(gs, n - 1, y)) + PullInvocations(gs, n - 1, y)

\* the pull-action calls of expand_pull_dense over the cells 0 .. c - 1
RECURSIVE KernelInvocations(_, _)
KernelInvocations(gs, c) ==
    IF c = 0 THEN 0 ELSE PullInvocations(gs, Len(gs), c - 1) + KernelInvocations(gs, c - 1)

ReturnedParallel ==
    /\ expander = "parallel"
    /\ exp_status = "returned"

\* C37: the num_gate_apps of the ExpandResult is the number of push_apply
\* calls made by expand_sparse or by expand_push_dense, or of pull-action
\* calls made by expand_pull_dense, while it expanded the kernel.
C37_GateAppsCounted ==
    ReturnedParallel
        => result[1].num_gate_apps
             = (IF result[1].method = "Sparse" THEN gate_apps
                ELSE IF result[1].method = "PushDense" THEN KernelApplications(gates, state)
                ELSE KernelInvocations(gates, Pow2(num_qubits)))

\* C37 for the dense methods alone
C37_DenseGateAppsCounted ==
    (ReturnedParallel /\ result[1].method # "Sparse") => C37_GateAppsCounted

\* C38: the num_nonzeros of the ExpandResult is the number of basis indices
\* at which the returned state holds a nonzero amplitude, whichever of the
\* three methods ran; for dense pull the count comes from the fold, not
\* from a scan of the table.
C38_NonzerosCounted ==
    ReturnedParallel
        => result[1].num_nonzeros
             = Cardinality({y \in Cells(num_qubits) : is_nonzero(State_get(result[1].state, y))})

\* expand_pull_dense has returned a table with both zero and nonzero cells
C38_Witness ==
    /\ ReturnedParallel
    /\ result[1].method = "PullDense"
    /\ result[1].num_nonzeros = 2
    /\ \E y \in Cells(num_qubits) : is_zero(State_get(result[1].state, y))

----------------------------------------------------------------------------
(* Properties of the blocks of expand_sparse                               *)

\* the source indices of block b
BlockRange(b) ==
    block_size_of(sparse_n(state), config) * b
        .. block_stop(b, sparse_n(state), config) - 1

\* the (bidx, weight) pairs that the push paths from (x, w) hold after the
\* first g gates of gs; a path ends at a zero weight
RECURSIVE PushReach(_, _, _, _)
PushReach(gs, g, x, w) ==
    IF g = 0 THEN {<<x, w>>}
    ELSE UNION {{<<push_apply(gs[g], p[1], p[2])[j][1], push_apply(gs[g], p[1], p[2])[j][2]>> :
                    j \in DOMAIN push_apply(gs[g], p[1], p[2])} :
                p \in {q \in PushReach(gs, g - 1, x, w) : is_nonzero(q[2])}}

\* every path of ps resumes inside the kernel and continues a push path
\* from a source entry of block b below the cursor s
PostponedFrom(b, s, ps) ==
    \A t \in DOMAIN ps :
        /\ ps[t][3] <= Len(gates)
        /\ \E i \in BlockRange(b) :
             /\ i < s
             /\ <<ps[t][1], ps[t][2]>>
                  \in PushReach(gates, ps[t][3], sparse_get(state, i)[1], sparse_get(state, i)[2])

\* C39: while expand_sparse runs, every postponed path (bidx, weight, g) of
\* a block has g at most the number of gates of the kernel, and (bidx,
\* weight) is what one push path from a source entry of that block below
\* its cursor holds after gates 0 .. g - 1; the cursor of a block lies in
\* its range; and the ranges of the blocks are pairwise disjoint and
\* together are 0 .. n - 1.
C39_PostponedPaths ==
    exp_status = "sparse"
        => /\ \A k \in DOMAIN blocks :
                /\ PostponedFrom(blocks[k].b, blocks[k].s, blocks[k].ps)
                /\ blocks[k].s >= block_size_of(sparse_n(state), config) * blocks[k].b
                /\ blocks[k].s <= block_stop(blocks[k].b, sparse_n(state), config)
           /\ \A k \in DOMAIN workers :
                PostponedFrom(workers[k].b, workers[k].s2, workers[k].ps2)
           /\ \A x, y \in DOMAIN blocks :
                x # y => BlockRange(blocks[x].b) \cap BlockRange(blocks[y].b) = {}
           /\ \A x, y \in DOMAIN initial_blocks(sparse_n(state), config) :
                x # y => BlockRange(x - 1) \cap BlockRange(y - 1) = {}
           /\ UNION {BlockRange(x - 1) : x \in DOMAIN initial_blocks(sparse_n(state), config)}
                = 0 .. sparse_n(state) - 1
           /\ \A k \in DOMAIN blocks :
                blocks[k].b + 1 \in DOMAIN initial_blocks(sparse_n(state), config)

\* after a resize two blocks are left, and one of them holds the postponed
\* second branch of a gate that is not the last of the kernel
C39_Witness ==
    /\ exp_status = "sparse"
    /\ Len(blocks) = 2
    /\ \E k \in DOMAIN blocks : \E t \in DOMAIN blocks[k].ps :
         /\ blocks[k].ps[t][3] >= 1
         /\ blocks[k].ps[t][3] < Len(gates)
         /\ blocks[k].s > block_size_of(sparse_n(state), config) * blocks[k].b

====
